---- MODULE Spec2Model ----
(***************************************************************************)
(* A model of the archival state of neptune-core: the block store          *)
(* (write_block and its readers), the archival mutator set and             *)
(* update_mutator_set with its rollback and forward phases.                *)
(*                                                                         *)
(* Digests are natural numbers (the genesis block has digest 0), hashes    *)
(* are injective: the commitment of a mutator set is the mutator set.      *)
(* The mutator-set parameters are scaled down so that windows slide and    *)
(* Bloom-filter indices collide within a few blocks.                       *)
(***************************************************************************)
EXTENDS Integers, Sequences, FiniteSets, TLC

\* ---------------------------------------------------------------- bounds
MaxBlocks == 3          \* blocks built besides the genesis block
MaxHeight == 3          \* greatest block height built
MaxAdditions == 2       \* addition records per block
MaxRemovals == 2        \* removal records per block
MaxPow == 2             \* greatest proof_of_work_family of a built block
MaxWrites == 3          \* calls of write_block
MaxBadBlocks == 1       \* blocks built with a wrong next_mutator_set_accumulator
MaxUpdates == 3         \* calls of update_mutator_set
NumApplications == 2    \* block applications that run concurrently
MaxApplied == 3         \* blocks that the applications store
MaxTreeBlocks == 5      \* blocks of a tree of forks
MaxTreeWrites == 5      \* calls of write_block that store a tree of forks
MaxCount == 4           \* greatest count passed to get_ancestor_block_digests
MaxItem == 1            \* greatest item added to a mutator set
MaxRandomness == 1      \* greatest randomness of a commitment
MaxSetAdds == 5         \* calls of add on a mutator set
MaxSetRemoves == 3      \* calls of remove on a mutator set
MaxInsertions == 5      \* calls of insert on an active window
MaxWindowCalls == 5     \* calls of any operation on an active window
MaxChunkLen == 2        \* indices of a chunk that slides back
MaxBatchRemoves == 2    \* calls of batch_remove on a mutator set
MaxBatchSize == 2       \* removal records of one call of batch_remove
MaxTimestamp == 12      \* greatest timestamp of a block, besides one beyond i64
MaxTargetInterval == 4  \* greatest target block interval passed, besides the default
MaxAddend == 20         \* greatest second difficulty of a sum
MaxHi == 2              \* greatest integer part of a fixed-point factor
NumJobs == 2            \* jobs run; run_async of job j completes at its j-th poll
MaxCancels == 2         \* sends on the cancel channel of one job
NumIps == 2             \* IP addresses of peers
NumPorts == 2           \* ports of one IP address
MaxInbound == 3         \* inbound connections made
MaxInstanceId == 3      \* greatest instance id of a peer; the node's own is 0
MaxStanding == 2        \* sanctions of one peer
NumCalls == 4           \* calls of RPC send

\* ------------------------------------------- mutator-set parameters (scaled)
BATCH_SIZE == 2
CHUNK_SIZE == 2
WINDOW_SIZE == 4
NUM_TRIALS == 2

\* ------------------------------------------------------ node parameters
args_max_peers == 2     \* Args::max_peers (scaled down)
RPC_CHANNEL_CAPACITY == 2   \* messages the RPC-to-main queue holds (scaled down)

\* ------------------------------------------------ block-file parameters
HEADER_SIZE == 3        \* serialized words of a block without its records
REMOVAL_SIZE == 2       \* serialized words of one removal record
MAX_BLOCK_FILE_SIZE == 9

\* usize values are kept modulo this number (the width is scaled down; it
\* exceeds the length of every chain of blocks).
USIZE_MODULUS == 65536

\* --------------------------------------- difficulty parameters (scaled)
\* The widths of the integers are scaled down together: a limb (u32) has
\* LIMB_BITS bits, a timestamp (a field element below 2^64 - 2^32 + 1) and an
\* i64 have twice as many.
LIMB_BITS == 4
DIFFICULTY_NUM_LIMBS == 2
MINIMUM_LIMB == 10
TARGET_BLOCK_INTERVAL == 6

\* ----------------------------------------------------------- generalities
None == << >>
Some(x) == << x >>
IsSome(o) == Len(o) = 1
Unwrap(o) == o[1]

Range(s) == { s[i] : i \in DOMAIN s }

MinOf(S) == CHOOSE x \in S : \A y \in S : x <= y

RECURSIVE SortedSeqOf(_)
\* The ascending sequence of the elements of a finite set of numbers.
SortedSeqOf(S) ==
    IF S = {} THEN << >>
    ELSE LET m == MinOf(S) IN << m >> \o SortedSeqOf(S \ {m})

RECURSIVE InsertSorted(_, _)
\* Vec::push followed by Vec::sort: the element lands in front of the first
\* greater one.
InsertSorted(s, x) ==
    IF s = << >> THEN << x >>
    ELSE IF x < Head(s) THEN << x >> \o s
    ELSE << Head(s) >> \o InsertSorted(Tail(s), x)

RECURSIVE sort(_)
sort(s) == IF s = << >> THEN << >> ELSE InsertSorted(sort(Tail(s)), Head(s))

RECURSIVE Dedup(_)
\* Vec::dedup: drops consecutive repetitions.
Dedup(s) ==
    IF Len(s) <= 1 THEN s
    ELSE IF s[1] = s[2] THEN Dedup(Tail(s))
    ELSE << s[1] >> \o Dedup(Tail(s))

Reverse(s) == [ i \in 1..Len(s) |-> s[Len(s) + 1 - i] ]

\* ----------------------------------------------------------- ActiveWindow
\* The sparse Bloom filter: the list sbf of set indices, kept sorted.

contains_at_the_front(sbf, index) == sbf # << >> /\ sbf[1] = index

contains(sbf, index) == \E i \in DOMAIN sbf : sbf[i] = index

insert_at_the_end(sbf, index) == Append(sbf, index)

insert(sbf, index) == InsertSorted(sbf, index)

slice(sbf, lower, upper) ==
    LET kept == SelectSeq(sbf, LAMBDA l : lower <= l /\ l < upper)
    IN  [ i \in 1..Len(kept) |-> kept[i] - lower ]

\* A chunk that keeps each index once.
slid_chunk_as_set_of_indices(sbf) == Dedup(slice(sbf, 0, CHUNK_SIZE))

\* Chunk::from_indices and to_indices keep the list of relative indices.
slid_chunk(sbf) == slice(sbf, 0, CHUNK_SIZE)

zerofy(sbf, lower, upper) == SelectSeq(sbf, LAMBDA l : ~(lower <= l /\ l < upper))

slide_window(sbf) ==
    LET kept == zerofy(sbf, 0, CHUNK_SIZE)
    IN  [ i \in 1..Len(kept) |-> kept[i] - CHUNK_SIZE ]

hasset(sbf, lower, upper) == \E i \in DOMAIN sbf : lower <= sbf[i] /\ sbf[i] < upper

\* The assertion of slide_window_back.
\* A stricter assertion: no index of the window is set.
slide_window_back_of_empty_window(sbf) == ~hasset(sbf, 0, WINDOW_SIZE)

slide_window_back_ok(sbf) == ~hasset(sbf, WINDOW_SIZE - CHUNK_SIZE, WINDOW_SIZE)

slide_window_back_without_chunk(sbf, chunk) ==
    sort([ i \in 1..Len(sbf) |-> sbf[i] + CHUNK_SIZE ])

slide_window_back(sbf, chunk) ==
    sort([ i \in 1..Len(sbf) |-> sbf[i] + CHUNK_SIZE ] \o chunk)

RECURSIVE remove_last_match(_, _)
remove_last_match(sbf, index) ==
    IF sbf = << >> THEN << >>
    ELSE IF sbf[Len(sbf)] = index THEN SubSeq(sbf, 1, Len(sbf) - 1)
    ELSE remove_last_match(SubSeq(sbf, 1, Len(sbf) - 1), index) \o << sbf[Len(sbf)] >>

remove_every_match(sbf, index) == SelectSeq(sbf, LAMBDA l : l # index)

\* ActiveWindow::remove; it panics when the index is absent (checked by the caller
\* of this operator with contains).
remove(sbf, index) == remove_last_match(sbf, index)

\* Bit view of a list of indices, as SetCommitment uses it on the active
\* window and on chunks: a set bit is a contained index.
get_bit(bits, index) == contains(bits, index)

set_bit(bits, index) == IF contains(bits, index) THEN bits ELSE insert(bits, index)

unset_bit(bits, index) == SelectSeq(bits, LAMBDA l : l # index)

RECURSIVE set_bits(_, _)
set_bits(bits, indices) ==
    IF indices = << >> THEN bits
    ELSE set_bits(set_bit(bits, Head(indices)), Tail(indices))

\* -------------------------------------------------------------- SetCommitment
\* A mutator set: aocl, the list of the commitments appended; swbf_inactive,
\* the list of the chunks that slid out of the window (the MMR holds their
\* digests); swbf_active, the active window.

EmptyMs == [ aocl |-> << >>, swbf_inactive |-> << >>, swbf_active |-> << >> ]

get_commitment(ms) == << ms.aocl, ms.swbf_inactive, ms.swbf_active >>

\* One sample of the counter-mode hash of (item, aocl_leaf_index, counter),
\* reduced to the window: a fixed function that makes the first two samples
\* of some items collide.
sample_index(item, aocl_leaf_index, counter) ==
    ( item + 2 * aocl_leaf_index
      + ( IF item % 3 = 0
          THEN (IF counter = 0 THEN 0 ELSE counter - 1)
          ELSE counter * (1 + 2 * (item % 2)) ) ) % WINDOW_SIZE

RECURSIVE sample_more(_, _, _, _)
sample_more(indices, item, aocl_leaf_index, j) ==
    IF Len(indices) >= NUM_TRIALS THEN indices
    ELSE sample_more(
            Dedup(sort(indices \o
                << sample_index(item, aocl_leaf_index, j)
                   + (aocl_leaf_index \div BATCH_SIZE) * CHUNK_SIZE >>)),
            item, aocl_leaf_index, j + 1)

get_swbf_indices(item, aocl_leaf_index) ==
    LET batch_index == aocl_leaf_index \div BATCH_SIZE
        first == [ i \in 1..NUM_TRIALS |->
                     sample_index(item, aocl_leaf_index, i - 1) + batch_index * CHUNK_SIZE ]
    IN  sample_more(Dedup(sort(first)), item, aocl_leaf_index, NUM_TRIALS)

window_slides_at_every_index(added_index) == added_index # 0

window_slides(added_index) == added_index # 0 /\ added_index % BATCH_SIZE = 0

window_slides_back(removed_index) == window_slides(removed_index)

get_batch_index(ms) ==
    IF Len(ms.aocl) = 0 THEN 0 ELSE (Len(ms.aocl) - 1) \div BATCH_SIZE

add_helper_losing_leaf_on_slide(ms, addition_record) ==
    LET item_index == Len(ms.aocl)
    IN  IF ~window_slides(item_index)
        THEN [ ms EXCEPT !.aocl = Append(ms.aocl, addition_record) ]
        ELSE [ aocl |-> ms.aocl,
               swbf_inactive |-> Append(ms.swbf_inactive, slid_chunk(ms.swbf_active)),
               swbf_active |-> slide_window(ms.swbf_active) ]

\* add_helper together with ArchivalMutatorSet::add, which stores the chunk
\* that add_helper returns.
add_helper(ms, addition_record) ==
    LET item_index == Len(ms.aocl)
        aocl == Append(ms.aocl, addition_record)
    IN  IF ~window_slides(item_index)
        THEN [ ms EXCEPT !.aocl = aocl ]
        ELSE [ aocl |-> aocl,
               swbf_inactive |-> Append(ms.swbf_inactive, slid_chunk(ms.swbf_active)),
               swbf_active |-> slide_window(ms.swbf_active) ]

\* A removal record: bit_indices, the ascending list of its NUM_TRIALS
\* indices, and target_chunks, its dictionary chunk index -> chunk.
get_chunk_index_to_bit_indices(rr) ==
    [ ci \in { b \div CHUNK_SIZE : b \in Range(rr.bit_indices) } |->
        SelectSeq(rr.bit_indices, LAMBDA b : b \div CHUNK_SIZE = ci) ]

\* remove_helper panics (unwrap) when an inactive chunk of the record is
\* missing in its dictionary.
remove_helper_ok(ms, rr) ==
    \A ci \in DOMAIN get_chunk_index_to_bit_indices(rr) :
        ci >= get_batch_index(ms) \/ ci \in DOMAIN rr.target_chunks

\* A removal that sets all but the last index of the record.
remove_helper_but_last_index(ms, rr) ==
    LET active_window_start == get_batch_index(ms) * CHUNK_SIZE
        but_last == SubSeq(rr.bit_indices, 1, Len(rr.bit_indices) - 1)
        active == SelectSeq(but_last, LAMBDA b : b >= active_window_start)
        inactive == SelectSeq(but_last, LAMBDA b : b < active_window_start)
    IN  [ ms |-> [ aocl |-> ms.aocl,
                   swbf_inactive |->
                       [ i \in 1..Len(ms.swbf_inactive) |->
                           LET mine == SelectSeq(inactive, LAMBDA b : b \div CHUNK_SIZE = i - 1)
                           IN  set_bits(ms.swbf_inactive[i],
                                        [ k \in 1..Len(mine) |-> mine[k] % CHUNK_SIZE ]) ],
                   swbf_active |->
                       set_bits(ms.swbf_active,
                                [ i \in 1..Len(active) |-> active[i] - active_window_start ]) ],
          diff_indices |-> << >> ]

\* A removal that sets the bits of the active window only.
remove_helper_in_active_window_only(ms, rr) ==
    LET active_window_start == get_batch_index(ms) * CHUNK_SIZE
        active == SelectSeq(rr.bit_indices, LAMBDA b : b >= active_window_start)
        relative == [ i \in 1..Len(active) |-> active[i] - active_window_start ]
    IN  [ ms |-> [ ms EXCEPT !.swbf_active = set_bits(@, relative) ],
          diff_indices |->
              SelectSeq(active, LAMBDA b : ~get_bit(ms.swbf_active, b - active_window_start)) ]

\* The mutator set after remove_helper and the ascending list of the indices
\* it flipped from 0 to 1.
remove_helper(ms, rr) ==
    LET batch_index == get_batch_index(ms)
        active_window_start == batch_index * CHUNK_SIZE
        active == SelectSeq(rr.bit_indices, LAMBDA b : b \div CHUNK_SIZE >= batch_index)
        inactive == SelectSeq(rr.bit_indices, LAMBDA b : b \div CHUNK_SIZE < batch_index)
        relative == [ i \in 1..Len(active) |-> active[i] - active_window_start ]
        new_target_chunks ==
            [ ci \in DOMAIN rr.target_chunks |->
                LET mine == SelectSeq(inactive, LAMBDA b : b \div CHUNK_SIZE = ci)
                IN  set_bits(rr.target_chunks[ci],
                             [ i \in 1..Len(mine) |-> mine[i] % CHUNK_SIZE ]) ]
        diff_active ==
            SelectSeq(active, LAMBDA b : ~get_bit(ms.swbf_active, b - active_window_start))
        diff_inactive ==
            SelectSeq(inactive,
                LAMBDA b : ~get_bit(rr.target_chunks[b \div CHUNK_SIZE], b % CHUNK_SIZE))
    IN  [ ms |-> [ aocl |-> ms.aocl,
                   swbf_inactive |->
                       [ i \in 1..Len(ms.swbf_inactive) |->
                           IF (i - 1) \in DOMAIN new_target_chunks
                           THEN new_target_chunks[i - 1]
                           ELSE ms.swbf_inactive[i] ],
                   swbf_active |-> set_bits(ms.swbf_active, relative) ],
          diff_indices |-> sort(diff_inactive \o diff_active) ]


\* SetCommitment::verify of the item at a leaf index with a membership proof
\* whose dictionary is target_chunks: the commitment is the leaf, every
\* inactive chunk of the item is in the dictionary and is the chunk the MMR
\* holds, and some bit of the item is unset.
verify(ms, item, data_index, target_chunks) ==
    /\ Len(ms.aocl) > data_index
    /\ ms.aocl[data_index + 1] = item
    /\ LET current_batch_index == get_batch_index(ms)
           window_start == current_batch_index * CHUNK_SIZE
           all_bit_indices == get_swbf_indices(item, data_index)
           inactive == { b \in Range(all_bit_indices) : b \div CHUNK_SIZE < current_batch_index }
           active == Range(all_bit_indices) \ inactive
       IN  /\ \A b \in inactive : (b \div CHUNK_SIZE) \in DOMAIN target_chunks
           /\ \A b \in inactive :
                target_chunks[b \div CHUNK_SIZE] = ms.swbf_inactive[(b \div CHUNK_SIZE) + 1]
           /\ \/ \E b \in inactive : ~get_bit(target_chunks[b \div CHUNK_SIZE], b % CHUNK_SIZE)
              \/ \E b \in active : ~get_bit(ms.swbf_active, b - window_start)

\* The dictionary of the membership proof that the archival mutator set
\* restores for a leaf: the inactive chunks its indices point into.
restore_target_chunks(ms, item, data_index) ==
    LET chunk_indices ==
            { b \div CHUNK_SIZE : b \in Range(get_swbf_indices(item, data_index)) }
    IN  [ ci \in { c \in chunk_indices : c < get_batch_index(ms) } |->
            ms.swbf_inactive[ci + 1] ]

\* SetCommitment::drop.
drop(item, data_index, target_chunks) ==
    [ bit_indices |-> get_swbf_indices(item, data_index),
      target_chunks |-> target_chunks ]

\* RemovalRecord::batch_update_from_addition: when the next addition slides
\* the window, every record with an index in the chunk that slides out gets
\* that chunk in its dictionary.
batch_update_from_addition(removal_records, ms) ==
    LET new_item_index == Len(ms.aocl)
        old_window_start_batch_index == (new_item_index \div BATCH_SIZE) - 1
        new_chunk == slid_chunk(ms.swbf_active)
    IN  IF ~window_slides(new_item_index) THEN removal_records
        ELSE [ i \in 1..Len(removal_records) |->
                 LET rr == removal_records[i]
                 IN  IF \E b \in Range(rr.bit_indices) :
                            b \div CHUNK_SIZE = old_window_start_batch_index
                     THEN [ rr EXCEPT !.target_chunks =
                              [ ci \in DOMAIN rr.target_chunks \cup {old_window_start_batch_index} |->
                                  IF ci = old_window_start_batch_index THEN new_chunk
                                  ELSE rr.target_chunks[ci] ] ]
                     ELSE rr ]

\* RemovalRecord::batch_update_from_remove: the bits of the applied record are
\* set in the chunks that the other records hold of the same chunk indices.
batch_update_from_remove(removal_records, applied) ==
    [ i \in 1..Len(removal_records) |->
        LET rr == removal_records[i]
        IN  [ rr EXCEPT !.target_chunks =
                [ ci \in DOMAIN rr.target_chunks |->
                    LET mine == SelectSeq(applied.bit_indices, LAMBDA b : b \div CHUNK_SIZE = ci)
                    IN  set_bits(rr.target_chunks[ci],
                                 [ k \in 1..Len(mine) |-> mine[k] % CHUNK_SIZE ]) ] ] ]

\* A chunk mutation that takes the place of the chunk.
chunk_assign(chunk, other) == other

\* Chunk::or.
chunk_or(chunk, other) == set_bits(chunk, other)

\* SetCommitment::batch_remove: the mutator set after it, the chunk mutations
\* and the changed indices it returns (a vector in the order of a hash map,
\* given here as a set), the preserved membership proofs, and ok, which is
\* FALSE when an assertion or a map lookup of batch_remove fails.
batch_remove(ms, removal_records, preserved_membership_proofs) ==
    LET batch_index == get_batch_index(ms)
        active_window_start == batch_index * CHUNK_SIZE
        all_removal_records_bits ==
            UNION { Range(removal_records[i].bit_indices) : i \in DOMAIN removal_records }
        active_bits == { b \in all_removal_records_bits : b >= active_window_start }
        inactive_bits == all_removal_records_bits \ active_bits
        changed_in_window ==
            { b \in active_bits : ~get_bit(ms.swbf_active, b - active_window_start) }
        chunk_index_to_chunk_mutation ==
            [ ci \in { b \div CHUNK_SIZE : b \in inactive_bits } |->
                SortedSeqOf({ b % CHUNK_SIZE : b \in { x \in inactive_bits : x \div CHUNK_SIZE = ci } }) ]
        holders(ci) == { i \in DOMAIN removal_records : ci \in DOMAIN removal_records[i].target_chunks }
        chunk_indices ==
            UNION { DOMAIN removal_records[i].target_chunks : i \in DOMAIN removal_records }
        \* HashMap::insert keeps the chunk of the record that comes last
        mutation_data_preimage ==
            [ ci \in chunk_indices |->
                removal_records[CHOOSE i \in holders(ci) : \A j \in holders(ci) : j <= i]
                    .target_chunks[ci] ]
        records_agree ==
            \A ci \in chunk_indices : \A i, j \in holders(ci) :
                removal_records[i].target_chunks[ci] = removal_records[j].target_chunks[ci]
        mutations_found == chunk_indices \subseteq DOMAIN chunk_index_to_chunk_mutation
        new_chunk(ci) == chunk_or(mutation_data_preimage[ci], chunk_index_to_chunk_mutation[ci])
        flipped_bits(ci) == Range(new_chunk(ci)) \ Range(mutation_data_preimage[ci])
    IN  IF ~(records_agree /\ mutations_found)
        THEN [ ok |-> FALSE, ms |-> ms, chunk_index_to_chunk_mutation |-> << >>,
               changed_indices |-> { }, preserved |-> preserved_membership_proofs ]
        ELSE [ ok |-> TRUE,
               ms |-> [ aocl |-> ms.aocl,
                        swbf_inactive |->
                            [ i \in 1..Len(ms.swbf_inactive) |->
                                IF (i - 1) \in chunk_indices THEN new_chunk(i - 1)
                                ELSE ms.swbf_inactive[i] ],
                        swbf_active |->
                            set_bits(ms.swbf_active,
                                     SortedSeqOf({ b - active_window_start : b \in active_bits })) ],
               chunk_index_to_chunk_mutation |-> chunk_index_to_chunk_mutation,
               changed_indices |->
                   changed_in_window
                   \cup UNION { { j + ci * CHUNK_SIZE : j \in flipped_bits(ci) } :
                                ci \in chunk_indices },
               preserved |->
                   [ k \in DOMAIN preserved_membership_proofs |->
                       [ preserved_membership_proofs[k] EXCEPT !.target_chunks =
                           [ ci \in DOMAIN @ |->
                               IF ci \in chunk_indices THEN new_chunk(ci) ELSE @[ci] ] ] ] ]

\* SetCommitment::commit: hash_pair(item, randomness), a hash taken as
\* injective. The item argument of verify, drop and get_swbf_indices above is
\* this commitment, which stands for the pair of the item and its randomness.
commit(item, randomness) == item * (MaxRandomness + 1) + randomness

\* The membership proof of an item that is not in the set.
prove_at_last_leaf(ms, item, randomness) ==
    [ randomness |-> randomness,
      data_index |-> IF Len(ms.aocl) = 0 THEN 0 ELSE Len(ms.aocl) - 1,
      target_chunks |-> << >> ]

\* SetCommitment::prove: the authentication path of a simulated append, whose
\* data index is the current leaf count, and an empty dictionary. The cached
\* bits, when asked for, are get_swbf_indices of the same arguments.
prove(ms, item, randomness) ==
    [ randomness |-> randomness,
      data_index |-> Len(ms.aocl),
      target_chunks |-> << >> ]

\* SetCommitment::verify with the membership proof as one value.
verify_membership_proof(ms, item, membership_proof) ==
    verify(ms, commit(item, membership_proof.randomness),
           membership_proof.data_index, membership_proof.target_chunks)

\* SetCommitment::drop with the membership proof as one value.
drop_membership_proof(item, membership_proof) ==
    drop(commit(item, membership_proof.randomness),
         membership_proof.data_index, membership_proof.target_chunks)

\* The value add_helper returns: the index and the chunk that it appended to
\* the inactive part when the window slid.
add_helper_returned(ms, addition_record) ==
    IF ~window_slides(Len(ms.aocl)) THEN None
    ELSE Some(<< (Len(ms.swbf_inactive) + 1) - 1, slid_chunk(ms.swbf_active) >>)

\* MsMembershipProof::update_from_addition, called before the addition is
\* applied to ms: when the addition slides the window, a proof with an index
\* in the chunk that slides out gets that chunk in its dictionary.
update_from_addition(membership_proof, own_item, ms) ==
    LET new_item_index == Len(ms.aocl)
        old_window_start_batch_index == (new_item_index \div BATCH_SIZE) - 1
        new_chunk == slid_chunk(ms.swbf_active)
        own_indices ==
            get_swbf_indices(commit(own_item, membership_proof.randomness),
                             membership_proof.data_index)
    IN  IF /\ window_slides(new_item_index)
           /\ \E b \in Range(own_indices) :
                  b \div CHUNK_SIZE = old_window_start_batch_index
        THEN [ membership_proof EXCEPT !.target_chunks =
                 [ ci \in DOMAIN @ \cup {old_window_start_batch_index} |->
                     IF ci = old_window_start_batch_index THEN new_chunk
                     ELSE membership_proof.target_chunks[ci] ] ]
        ELSE membership_proof

\* MsMembershipProof::update_from_remove: the bits of the removal record are
\* set in the chunks that the proof holds of the same chunk indices.
update_from_remove(membership_proof, removal_record) ==
    [ membership_proof EXCEPT !.target_chunks =
        [ ci \in DOMAIN @ |->
            LET mine == SelectSeq(removal_record.bit_indices,
                                  LAMBDA b : b \div CHUNK_SIZE = ci)
            IN  set_bits(membership_proof.target_chunks[ci],
                         [ k \in 1..Len(mine) |-> mine[k] % CHUNK_SIZE ]) ] ]

\* ------------------------------------------------------ ArchivalMutatorSet
\* revert_add: the last AOCL leaf is removed; when its addition had slid the
\* window, the last inactive chunk slides back into the active window.
revert_add_ok(ms, addition_record) ==
    /\ Len(ms.aocl) > 0
    /\ window_slides_back(Len(ms.aocl) - 1) =>
          /\ Len(ms.swbf_inactive) > 0
          /\ slide_window_back_ok(ms.swbf_active)

revert_add(ms, addition_record) ==
    LET removed_add_index == Len(ms.aocl) - 1
        aocl == SubSeq(ms.aocl, 1, removed_add_index)
    IN  IF ~window_slides_back(removed_add_index)
        THEN [ ms EXCEPT !.aocl = aocl ]
        ELSE [ aocl |-> aocl,
               swbf_inactive |-> SubSeq(ms.swbf_inactive, 1, Len(ms.swbf_inactive) - 1),
               swbf_active |->
                   slide_window_back(ms.swbf_active, ms.swbf_inactive[Len(ms.swbf_inactive)]) ]

\* Is the bit of an absolute index set, in the window or in its chunk?
bit_is_set(ms, index) ==
    LET active_window_start == get_batch_index(ms) * CHUNK_SIZE
    IN  IF index >= active_window_start
        THEN get_bit(ms.swbf_active, index - active_window_start)
        ELSE /\ index \div CHUNK_SIZE < Len(ms.swbf_inactive)
             /\ get_bit(ms.swbf_inactive[(index \div CHUNK_SIZE) + 1], index % CHUNK_SIZE)

\* revert_remove is fatal when a bit it is to clear is 0.
revert_remove_ok(ms, diff_indices) ==
    \A i \in DOMAIN diff_indices : bit_is_set(ms, diff_indices[i])

revert_remove(ms, diff_indices) ==
    LET active_window_start == get_batch_index(ms) * CHUNK_SIZE
        cleared == Range(diff_indices)
    IN  [ aocl |-> ms.aocl,
          swbf_inactive |->
              [ i \in 1..Len(ms.swbf_inactive) |->
                  SelectSeq(ms.swbf_inactive[i],
                      LAMBDA l : (l + (i - 1) * CHUNK_SIZE) \notin cleared
                                 \/ (l + (i - 1) * CHUNK_SIZE) >= active_window_start) ],
          swbf_active |->
              SelectSeq(ms.swbf_active, LAMBDA l : (l + active_window_start) \notin cleared) ]


\* ------------------------------------------- forward phase of a block's update
\* The loop over the addition records: the removal records are batch-updated
\* before every addition.
neither_sorted_nor_deduped(changed_indices) == changed_indices

\* changed_indices.sort_unstable() and changed_indices.dedup().
sort_and_dedup(changed_indices) == Dedup(sort(changed_indices))

RECURSIVE apply_additions(_, _, _)
apply_additions(ms, removal_records, addition_records) ==
    IF addition_records = << >> THEN [ ms |-> ms, removal_records |-> removal_records ]
    ELSE apply_additions(add_helper(ms, Head(addition_records)),
                         batch_update_from_addition(removal_records, ms),
                         Tail(addition_records))

RECURSIVE apply_no_removals(_, _, _)
apply_no_removals(ms, removal_records, changed_indices) ==
    [ ok |-> TRUE, ms |-> ms, changed_indices |-> changed_indices ]

\* The loop over the removal records: the remaining records are batch-updated
\* with the record that is removed next; ok is FALSE when a removal panics.
RECURSIVE apply_removals(_, _, _)
apply_removals(ms, removal_records, changed_indices) ==
    IF removal_records = << >>
    THEN [ ok |-> TRUE, ms |-> ms, changed_indices |-> changed_indices ]
    ELSE LET removal_record == Head(removal_records)
             rest == batch_update_from_remove(Tail(removal_records), removal_record)
         IN  IF ~remove_helper_ok(ms, removal_record)
             THEN [ ok |-> FALSE, ms |-> ms, changed_indices |-> changed_indices ]
             ELSE LET r == remove_helper(ms, removal_record)
                  IN  apply_removals(r.ms, rest, changed_indices \o r.diff_indices)

\* Additions first, then removals; changed_indices is sorted and deduplicated
\* at the end.
apply_update(ms, addition_records, removal_records) ==
    LET added == apply_additions(ms, removal_records, addition_records)
        removed == apply_removals(added.ms, added.removal_records, << >>)
    IN  [ ok |-> removed.ok, ms |-> removed.ms,
          changed_indices |-> sort_and_dedup(removed.changed_indices) ]

\* ------------------------------------- the forward phase, step by step
\* The vectors of the forward phase hold each record with its position in the
\* block and the steps it was batch-updated for.
with_positions(records) ==
    [ i \in 1..Len(records) |-> [ position |-> i, record |-> records[i], updated_for |-> << >> ] ]

\* records.clone() and records.reverse().
reversed(records) == Reverse(with_positions(records))

\* The records of a vector, for the batch updates.
records_of(vector) == [ i \in 1..Len(vector) |-> vector[i].record ]

\* A vector after a batch update on behalf of step.
batch_updated(vector, updated_records, step) ==
    [ i \in 1..Len(vector) |->
        [ vector[i] EXCEPT !.record = updated_records[i], !.updated_for = Append(@, step) ] ]

\* while let Some(addition_record) = addition_records.pop(): the removal
\* records that remain are batch-updated, then the record is added.
RECURSIVE add_loop(_, _, _, _)
add_loop(ms, addition_records, removal_records, steps) ==
    IF addition_records = << >>
    THEN [ ms |-> ms, removal_records |-> removal_records, steps |-> steps ]
    ELSE LET addition_record == addition_records[Len(addition_records)]
             step == [ op |-> "add", position |-> addition_record.position ]
         IN  add_loop(add_helper(ms, addition_record.record),
                      SubSeq(addition_records, 1, Len(addition_records) - 1),
                      batch_updated(removal_records,
                          batch_update_from_addition(records_of(removal_records), ms), step),
                      Append(steps, step))

\* while let Some(removal_record) = removal_records.pop(): the records that
\* remain are batch-updated with the popped record, then it is removed.
\* applied lists the records as they were when remove was called with them.
RECURSIVE remove_loop(_, _, _, _)
remove_loop(ms, removal_records, steps, applied) ==
    IF removal_records = << >>
    THEN [ ok |-> TRUE, ms |-> ms, steps |-> steps, applied |-> applied ]
    ELSE LET removal_record == removal_records[Len(removal_records)]
             remaining == SubSeq(removal_records, 1, Len(removal_records) - 1)
             step == [ op |-> "remove", position |-> removal_record.position ]
             now == [ removal_record EXCEPT !.updated_for = @ ] @@ [ before |-> steps ]
         IN  IF ~remove_helper_ok(ms, removal_record.record)
             THEN [ ok |-> FALSE, ms |-> ms, steps |-> steps,
                    applied |-> Append(applied, now) ]
             ELSE remove_loop(remove_helper(ms, removal_record.record).ms,
                      batch_updated(remaining,
                          batch_update_from_remove(records_of(remaining),
                                                   removal_record.record), step),
                      Append(steps, step), Append(applied, now))

\* The forward phase of update_mutator_set on the mutator set ms.
forward_phase(ms, additions, removals) ==
    LET added == add_loop(ms, reversed(additions), reversed(removals), << >>)
    IN  remove_loop(added.ms, added.removal_records, added.steps, << >>)

\* ------------------------------------------------------------------ blocks
\* A block: its digest, the header fields height, prev_block_digest and
\* proof_of_work_family, the addition and removal records of its
\* mutator-set update, and next_ms, its next_mutator_set_accumulator.

GenesisDigest == 0
NoDigest == 0 - 1

genesis_block ==
    [ hash |-> GenesisDigest, height |-> 0, prev_block_digest |-> NoDigest,
      proof_of_work_family |-> 0,
      additions |-> << 0 >>, removals |-> << >>,
      next_ms |-> add_helper(EmptyMs, 0) ]

header_of(block) ==
    [ hash |-> block.hash, height |-> block.height,
      prev_block_digest |-> block.prev_block_digest,
      proof_of_work_family |-> block.proof_of_work_family ]

\* The leaves of a mutator set that a transaction can spend: those whose
\* restored membership proof verifies.
spendable(ms) ==
    { i \in 0..(Len(ms.aocl) - 1) :
        verify(ms, ms.aocl[i + 1], i, restore_target_chunks(ms, ms.aocl[i + 1], i)) }

\* make_mock_block with add_output_to_block and add_unsigned_input_to_block_ams:
\* a block on top of previous_block with nadd outputs that spends the leaves
\* spends of the mutator set of previous_block. A block that is not honest
\* carries the accumulator of its parent as its own.
make_mock_block(hash, previous_block, nadd, spends, pow, honest) ==
    LET previous_ms == previous_block.next_ms
        additions == [ j \in 1..nadd |-> hash * 4 + (j - 1) ]
        removals ==
            [ k \in 1..Len(spends) |->
                drop(previous_ms.aocl[spends[k] + 1], spends[k],
                     restore_target_chunks(previous_ms, previous_ms.aocl[spends[k] + 1],
                                           spends[k])) ]
    IN  [ hash |-> hash, height |-> previous_block.height + 1,
          prev_block_digest |-> previous_block.hash,
          proof_of_work_family |-> pow,
          additions |-> additions, removals |-> removals,
          next_ms |-> IF honest THEN apply_update(previous_ms, additions, removals).ms
                      ELSE previous_ms ]

\* bincode::serialize: an injective encoding; word k of the encoding of a
\* block is the pair of the block's digest and k.
bincode_size(block) ==
    HEADER_SIZE + Len(block.additions) + REMOVAL_SIZE * Len(block.removals)

serialize(block) == [ k \in 1..bincode_size(block) |-> << block.hash, k >> ]


\* ------------------------------------------------------------------- state
VARIABLES
    pool,              \* the blocks built so far; the block of digest h is pool[h]
    block_index,       \* the catalog: LastFile, File(n), Block(digest), Height(h), Tip
    block_files,       \* blk{N}.dat is block_files[N + 1], a sequence of words
    ams,               \* the archival mutator set
    ms_block_sync,     \* SyncDigest and Diff(digest)
    active_window_db,  \* the active window as store_to_database left it
    aborted,           \* the panic that ended the process, "" while it runs
    last,              \* the latest call: its operation, arguments and observations
    history,           \* counters and snapshots of the calls so far
    lock_owner,        \* the task that holds each of the three mutexes, 0 when free
    task,              \* each task's position, locks held and block
    job,               \* each job's future: its cancel channel, progress and completion
    connection,        \* each inbound connection: its first message, what was sent, its end
    peer_map,          \* the peer of each socket address, None without one
    peer_databases,    \* peer_standings: the standing stored for each IP address
    rpc_server_to_main, \* the queue from the RPC server to the main loop and its receiver
    rpc_call,          \* each call of RPC send: its argument, position and acknowledgement
    headers_call       \* a call of block_height_to_block_headers: its position and reads

vars == << pool, block_index, block_files, ams, ms_block_sync, active_window_db,
           aborted, last, history, lock_owner, task, job, connection, peer_map,
           peer_databases, rpc_server_to_main, rpc_call, headers_call >>

\* What the archival state and its tasks never touch.
node_vars ==
    << job, connection, peer_map, peer_databases, rpc_server_to_main, rpc_call, headers_call >>

corrupt_block ==
    [ hash |-> NoDigest, height |-> 0, prev_block_digest |-> NoDigest,
      proof_of_work_family |-> 0, additions |-> << >>, removals |-> << >>,
      next_ms |-> EmptyMs ]

known_blocks == Range(pool) \cup { genesis_block }

block_of(digest) == IF digest = GenesisDigest THEN genesis_block ELSE pool[digest]

\* bincode::deserialize: the block whose encoding the words are.
deserialize(words) ==
    IF \E b \in known_blocks : serialize(b) = words
    THEN CHOOSE b \in known_blocks : serialize(b) = words
    ELSE corrupt_block

\* ---------------------------------------------------------------- the store
\* FileRecord::new and FileRecord::add.
FileRecord_new(block_size, header) ==
    [ blocks_in_file_count |-> 1, file_size |-> block_size,
      min_block_height |-> header.height, max_block_height |-> header.height ]

FileRecord_add(record, block_size, header) ==
    [ blocks_in_file_count |-> record.blocks_in_file_count + 1,
      file_size |-> record.file_size + block_size,
      min_block_height |-> IF header.height < record.min_block_height
                           THEN header.height ELSE record.min_block_height,
      max_block_height |-> IF header.height > record.max_block_height
                           THEN header.height ELSE record.max_block_height ]

new_block_file_is_needed(file, block_size) == Len(file) + block_size > MAX_BLOCK_FILE_SIZE

open_truncating(files, file_index) ==
    IF file_index + 1 <= Len(files) THEN [ files EXCEPT ![file_index + 1] = << >> ]
    ELSE Append(files, << >>)

\* OpenOptions::create(true).open: the file exists afterwards.
open(files, file_index) ==
    IF file_index + 1 <= Len(files) THEN files ELSE Append(files, << >>)

zero_word == << NoDigest, 0 >>

copy_nothing(file, offset, words) == file

\* copy_from_slice into the mapping of [offset, offset + Len(words)).
copy_from_slice(file, offset, words) ==
    [ i \in 1..Len(file) |->
        IF offset < i /\ i <= offset + Len(words) THEN words[i - offset] ELSE file[i] ]

marks_tip_on_tie(current_max_pow_family, new_block) ==
    IF ~IsSome(current_max_pow_family) THEN TRUE
    ELSE Unwrap(current_max_pow_family) <= new_block.proof_of_work_family

\* "Mark block as tip if its PoW family is larger than current most canonical".
marks_tip(current_max_pow_family, new_block) ==
    IF ~IsSome(current_max_pow_family) THEN TRUE
    ELSE Unwrap(current_max_pow_family) < new_block.proof_of_work_family

fresh_file_record(index, last_file, block_size, header) == FileRecord_new(block_size, header)

\* "Get associated file record from database, otherwise create it".
updated_file_record(index, last_file, block_size, header) ==
    IF last_file \in DOMAIN index.File
    THEN FileRecord_add(index.File[last_file], block_size, header)
    ELSE FileRecord_new(block_size, header)

\* The catalog and the files after write_block, and whether its assertion held.
write_block_effect(index, files, new_block, current_max_pow_family) ==
    LET last_rec_0 == IF IsSome(index.LastFile) THEN Unwrap(index.LastFile) ELSE 0
        serialized_block == serialize(new_block)
        serialized_block_size == Len(serialized_block)
        files_0 == open(files, last_rec_0)
        needed == new_block_file_is_needed(files_0[last_rec_0 + 1], serialized_block_size)
        last_rec == IF needed THEN last_rec_0 + 1 ELSE last_rec_0
        files_1 == open(files_0, last_rec)
        block_file == files_1[last_rec + 1]
        has_record == last_rec \in DOMAIN index.File
        file_record_value ==
            updated_file_record(index, last_rec, serialized_block_size, header_of(new_block))
        pos == Len(block_file)
        \* seek(Current(size - 1)), write one byte, seek(Current(-size))
        grown == block_file \o [ k \in 1..serialized_block_size |-> zero_word ]
        file_offset == (pos + (serialized_block_size - 1) + 1) - serialized_block_size
        written == copy_from_slice(grown, pos, serialized_block)
        blocks_at_same_height ==
            IF new_block.height \in DOMAIN index.Height
            THEN index.Height[new_block.height] ELSE << >>
        block_record_value ==
            [ block_header |-> header_of(new_block),
              file_index |-> last_rec, offset |-> file_offset,
              block_length |-> serialized_block_size ]
    IN  [ ok |-> has_record \/ Len(block_file) = 0,
          files |-> [ files_1 EXCEPT ![last_rec + 1] = written ],
          index |->
            [ LastFile |-> Some(last_rec),
              File |-> [ n \in DOMAIN index.File \cup {last_rec} |->
                           IF n = last_rec THEN file_record_value ELSE index.File[n] ],
              Block |-> [ d \in DOMAIN index.Block \cup {new_block.hash} |->
                           IF d = new_block.hash THEN block_record_value ELSE index.Block[d] ],
              Height |-> [ h \in DOMAIN index.Height \cup {new_block.height} |->
                           IF h = new_block.height
                           THEN Append(blocks_at_same_height, new_block.hash)
                           ELSE index.Height[h] ],
              Tip |-> IF marks_tip(current_max_pow_family, new_block) THEN Some(new_block.hash) ELSE index.Tip ] ]

get_block_at_start_of_file(files, block_record) ==
    deserialize(SubSeq(files[block_record.file_index + 1], 1, block_record.block_length))

\* get_block_from_block_record: the words of the record's range, decoded;
\* mapping a range beyond the end of the file fails.
get_block_from_block_record(files, block_record) ==
    LET file == files[block_record.file_index + 1]
    IN  IF block_record.offset + block_record.block_length > Len(file)
        THEN corrupt_block
        ELSE deserialize(SubSeq(file, block_record.offset + 1,
                                block_record.offset + block_record.block_length))

\* get_block and get_block_with_lock: None, or Some(block).
get_block(index, files, block_digest) ==
    IF block_digest \in DOMAIN index.Block
    THEN Some(get_block_from_block_record(files, index.Block[block_digest]))
    ELSE IF genesis_block.hash = block_digest THEN Some(genesis_block)
    ELSE None

get_latest_block_from_disk(index, files) ==
    IF ~IsSome(index.Tip) THEN None
    ELSE Some(get_block_from_block_record(files, index.Block[Unwrap(index.Tip)]))

get_latest_block(index, files) ==
    LET lookup_res_info == get_latest_block_from_disk(index, files)
    IN  IF lookup_res_info = None THEN genesis_block ELSE Unwrap(lookup_res_info)

get_block_header(index, block_digest) ==
    IF block_digest \in DOMAIN index.Block THEN Some(index.Block[block_digest].block_header)
    ELSE IF block_digest = genesis_block.hash THEN Some(header_of(genesis_block))
    ELSE None


block_height_to_block_count(index, height) ==
    IF height \in DOMAIN index.Height THEN Len(index.Height[height]) ELSE 0

\* The headers of the known blocks at a height, in the order of the record.
block_height_to_block_headers(index, block_height) ==
    IF block_height \in DOMAIN index.Height
    THEN [ i \in 1..Len(index.Height[block_height]) |->
             index.Block[index.Height[block_height][i]].block_header ]
    ELSE << >>

any_parent(x, block_header) == TRUE

has_parent(x, block_header) == x.prev_block_digest = block_header.hash

get_children_blocks(index, block_header) ==
    SelectSeq(block_height_to_block_headers(index, block_header.height + 1),
              LAMBDA x : has_parent(x, block_header))

\* The children of every header of a generation, appended in order.
RECURSIVE next_generation_offspring(_, _)
next_generation_offspring(index, offspring_of_generation_x) ==
    IF offspring_of_generation_x = << >> THEN << >>
    ELSE get_children_blocks(index, Head(offspring_of_generation_x))
         \o next_generation_offspring(index, Tail(offspring_of_generation_x))

\* The while loop over the generations of block_belongs_to_canonical_chain.
RECURSIVE check_generations(_, _, _, _, _)
check_generations(index, previous_generation_blocks, offspring, block_height, tip_header) ==
    IF Len(offspring) > 1 /\ block_height < tip_header.height
    THEN check_generations(index, offspring, next_generation_offspring(index, offspring),
                           block_height + 1, tip_header)
    ELSE [ previous_generation_blocks |-> previous_generation_blocks,
           offspring_of_generation_x |-> offspring,
           block_height |-> block_height ]

\* The walk back from the tip to the height of the offspring candidate:
\* None when a header on the way is not known.
RECURSIVE track_backwards(_, _, _)
track_backwards(index, tip_ancestor, offspring_candidate) ==
    IF tip_ancestor # offspring_candidate /\ tip_ancestor.height > offspring_candidate.height
    THEN LET parent == get_block_header(index, tip_ancestor.prev_block_digest)
         IN  IF parent = None THEN None
             ELSE track_backwards(index, Unwrap(parent), offspring_candidate)
    ELSE Some(tip_ancestor)

\* block_belongs_to_canonical_chain: the value returned, or the panic.
block_belongs_to_canonical_chain(index, block_header, tip_header) ==
    LET returns(value) == [ panic |-> "", value |-> value ]
        panics(message) == [ panic |-> message, value |-> FALSE ]
        has_tip(headers) == \E i \in DOMAIN headers : headers[i].hash = tip_header.hash
    IN  IF block_height_to_block_count(index, block_header.height) = 1
           /\ tip_header.height >= block_header.height
        THEN returns(TRUE)
        ELSE IF \/ tip_header.height < block_header.height
                \/ /\ tip_header.height = block_header.height
                   /\ tip_header.hash # block_header.hash
        THEN returns(FALSE)
        ELSE
        LET generations == check_generations(index, << block_header >>,
                                             get_children_blocks(index, block_header),
                                             block_header.height + 1, tip_header)
            offspring == generations.offspring_of_generation_x
        IN  IF has_tip(generations.previous_generation_blocks) THEN returns(TRUE)
            ELSE IF has_tip(offspring) THEN returns(TRUE)
            ELSE IF generations.block_height = tip_header.height THEN returns(FALSE)
            ELSE IF offspring = << >> THEN returns(FALSE)
            ELSE IF Len(offspring) = 1
            THEN LET offspring_candidate == offspring[1]
                 IN  IF block_height_to_block_count(index, offspring_candidate.height) = 1
                     THEN returns(TRUE)
                     ELSE LET tip_ancestor ==
                                  track_backwards(index, tip_header, offspring_candidate)
                          IN  IF tip_ancestor = None
                              THEN panics("unwrap on None")
                              ELSE returns(Unwrap(tip_ancestor).hash = offspring_candidate.hash)
            ELSE panics("This should never happen")


\* ---------------------------------------------- get_ancestor_block_digests
\* "count -= 1" on a usize that is 0: a build with overflow checks panics,
\* a build without them wraps around.
subtraction_overflows(count, overflow_checks) == count = 0 /\ overflow_checks

\* The while-let loop: it pushes the digest of every header it finds and
\* breaks when the decremented count is 0.
RECURSIVE collect_ancestors(_, _, _, _, _)
collect_ancestors(index, parent_digest, count, ret, overflow_checks) ==
    LET parent == get_block_header(index, parent_digest)
    IN  IF parent = None THEN [ panic |-> "", value |-> ret ]
        ELSE IF subtraction_overflows(count, overflow_checks)
        THEN [ panic |-> "attempt to subtract with overflow", value |-> << >> ]
        ELSE IF (count - 1) % USIZE_MODULUS = 0
        THEN [ panic |-> "", value |-> Append(ret, Unwrap(parent).hash) ]
        ELSE collect_ancestors(index, Unwrap(parent).prev_block_digest,
                               (count - 1) % USIZE_MODULUS,
                               Append(ret, Unwrap(parent).hash), overflow_checks)

\* get_ancestor_block_digests: the list returned, or the panic.
get_ancestor_block_digests(index, block_digest, count, overflow_checks) ==
    LET input_block_header == get_block_header(index, block_digest)
    IN  IF input_block_header = None
        THEN [ panic |-> "unwrap on None", value |-> << >> ]
        ELSE collect_ancestors(index, Unwrap(input_block_header).prev_block_digest,
                               count, << >>, overflow_checks)

\* ----------------------------------------------------- update_mutator_set
\* The additions of a rolled-back block, reverted last first.
RECURSIVE revert_additions(_, _)
revert_additions(ms, reversed_additions) ==
    IF reversed_additions = << >> THEN [ ok |-> TRUE, ms |-> ms ]
    ELSE IF ~revert_add_ok(ms, Head(reversed_additions)) THEN [ ok |-> FALSE, ms |-> ms ]
    ELSE revert_additions(revert_add(ms, Head(reversed_additions)), Tail(reversed_additions))

rollback_finished_at_genesis(cursor, target) == cursor = GenesisDigest

\* The rollback loop runs while the cursor is not the parent of the new block.
rollback_finished(cursor, target) == cursor = target

\* The rollback loop from the block of digest cursor down to the block of
\* digest target: abort names the panic that ended it ("" when it finished),
\* rolled_back lists the digests whose Diff entry was read and reverted.
RECURSIVE roll_back(_, _, _, _, _, _)
roll_back(index, files, sync, cursor, target, acc) ==
    IF rollback_finished(cursor, target) THEN acc
    ELSE LET fetched == get_block(index, files, cursor)
         IN  IF fetched = None \/ fetched = Some(corrupt_block)
             THEN [ acc EXCEPT !.abort = "Fetching block must succeed" ]
             ELSE LET roll_back_block == Unwrap(fetched)
                      reverted == revert_additions(acc.ms, Reverse(roll_back_block.additions))
                  IN  IF ~reverted.ok
                      THEN [ acc EXCEPT !.abort = "revert_add", !.ms = reverted.ms ]
                      ELSE IF roll_back_block.hash \notin DOMAIN sync.Diff
                      THEN [ acc EXCEPT !.abort = "Diff missing", !.ms = reverted.ms ]
                      ELSE IF ~revert_remove_ok(reverted.ms, sync.Diff[roll_back_block.hash])
                      THEN [ acc EXCEPT !.abort = "revert_remove", !.ms = reverted.ms ]
                      ELSE roll_back(index, files, sync,
                               roll_back_block.prev_block_digest, target,
                               [ abort |-> "",
                                 ms |-> revert_remove(reverted.ms,
                                                      sync.Diff[roll_back_block.hash]),
                                 rolled_back |-> Append(acc.rolled_back, roll_back_block.hash) ])

commitment_unchecked(new_block, ms) == TRUE

\* The assertion on the commitment of the new block.
commitment_matches(new_block, ms) == get_commitment(new_block.next_ms) = get_commitment(ms)

ms_block_sync_entries_keeping_digest(sync, new_block, changed_indices) ==
    [ SyncDigest |-> IF IsSome(sync.SyncDigest) THEN sync.SyncDigest ELSE Some(new_block.hash),
      Diff |-> [ d \in DOMAIN sync.Diff \cup {new_block.hash} |->
                   IF d = new_block.hash THEN changed_indices ELSE sync.Diff[d] ] ]

\* The batch written to ms_block_sync_db: SyncDigest and the Diff of the block.
ms_block_sync_entries(sync, new_block, changed_indices) ==
    [ SyncDigest |-> Some(new_block.hash),
      Diff |-> [ d \in DOMAIN sync.Diff \cup {new_block.hash} |->
                   IF d = new_block.hash THEN changed_indices ELSE sync.Diff[d] ] ]

\* The whole of update_mutator_set: abort is "" when it returns.
update_mutator_set_effect(index, files, ms, sync, window_db, new_block) ==
    LET sync_present == IsSome(sync.SyncDigest)
        ms_block_sync_digest ==
            IF sync_present THEN Unwrap(sync.SyncDigest) ELSE genesis_block.hash
        unchanged == [ abort |-> "", ms |-> ms, sync |-> sync, window_db |-> window_db,
                       rolled_back |-> << >>, ms_rolled_back |-> ms ]
    IN  IF ~sync_present /\ new_block.prev_block_digest # genesis_block.hash
        THEN [ unchanged EXCEPT !.abort = "Empty ms_block_sync_db" ]
        ELSE
        LET back == roll_back(index, files, sync, ms_block_sync_digest,
                              new_block.prev_block_digest,
                              [ abort |-> "", ms |-> ms, rolled_back |-> << >> ])
        IN  IF back.abort # ""
            THEN [ unchanged EXCEPT !.abort = back.abort, !.ms = back.ms,
                                    !.rolled_back = back.rolled_back, !.ms_rolled_back = back.ms ]
            ELSE
            LET forward == apply_update(back.ms, new_block.additions, new_block.removals)
                after == [ unchanged EXCEPT !.ms = forward.ms, !.rolled_back = back.rolled_back,
                                            !.ms_rolled_back = back.ms ]
            IN  IF ~forward.ok THEN [ after EXCEPT !.abort = "remove" ]
                ELSE IF ~commitment_matches(new_block, forward.ms)
                THEN [ after EXCEPT !.abort = "commitment",
                                    !.window_db = Some(forward.ms.swbf_active) ]
                ELSE [ after EXCEPT
                         !.window_db = Some(forward.ms.swbf_active),
                         !.sync = ms_block_sync_entries(sync, new_block,
                                                        forward.changed_indices) ]

\* ----------------------------------------------------------------- actions
\* The three mutexes, and the tasks: the block applications and a reader.
Locks == { "block_databases", "archival_mutator_set", "ms_block_sync_db" }

Applications == 1..NumApplications

Reader == NumApplications + 1

Tasks == Applications \cup { Reader }

no_call == [ op |-> "none", hash |-> NoDigest, passed |-> None, tip_before |-> None,
             sync_before |-> None, rolled_back |-> << >>, written_at |-> << >>,
             ms_rolled_back |-> EmptyMs, count |-> 0, returned |-> << >>,
             item |-> 0, membership_proof |-> << >>, verified_before |-> FALSE,
             ms_before |-> EmptyMs ]

\* No call on the active window yet: the inserts and the removals of each
\* index, the slides and the calls.
no_window_calls ==
    [ inserted |-> [ i \in 0..(WINDOW_SIZE - 1) |-> 0 ],
      removed |-> [ i \in 0..(WINDOW_SIZE - 1) |-> 0 ],
      slides |-> 0, total |-> 0 ]

\* ----------------------------------------------------------------- jobs
Jobs == 1..NumJobs

\* JobCompletion.
Finished(job_result) == [ completion |-> "Finished", job_result |-> job_result ]

Cancelled == [ completion |-> "Cancelled", job_result |-> 0 ]

\* A job whose future has not been polled: the watch channel of its cancel
\* message (the version sent, the version its receiver has seen, whether the
\* sender still exists), the parts of its result that run_async has built,
\* and the completion that run_async_cancellable resolved to. resolved
\* counts the resolutions and cancel_observed tells that rx.changed() was
\* found ready.
new_job ==
    [ version |-> 0, seen |-> 0, sender_dropped |-> FALSE,
      parts |-> 0, completion |-> None, resolved |-> 0, cancel_observed |-> FALSE ]

\* ---------------------------------------------------------------- peers
\* Socket addresses: an IP address and a port.
Addresses == (1..NumIps) \X (1..NumPorts)

Ips == 1..NumIps

Networks == { "Main", "Testnet" }

\* PeerStanding::default(), also what clear_standing leaves.
default_standing == [ standing |-> 0, latest_sanction |-> None ]

MAGIC_STRING_REQUEST == "request"

MAGIC_STRING_RESPONSE == "response"

\* The handshake data of the node.
own_handshake == [ instance_id |-> 0, network |-> "Main" ]

\* PeerMessage::Handshake, ConnectionStatus and its two variants.
Handshake(magic, handshake_data) ==
    [ message |-> "Handshake", magic |-> magic, handshake_data |-> handshake_data ]

Accepted == [ status |-> "Accepted", reason |-> "" ]

Refused(reason) == [ status |-> "Refused", reason |-> reason ]

ConnectionStatus(status) == [ message |-> "ConnectionStatus", status |-> status ]

\* An address nobody has connected from: the first message read, the
\* messages written, how answer_peer ended, and the peer map that the
\* connection decision was taken on.
no_connection ==
    [ pc |-> "idle", first |-> None, sent |-> << >>, outcome |-> "",
      peer_map_seen |-> None ]

\* ------------------------------------------------------------- RPC send
Calls == 1..NumCalls

\* A call of RPC send that has not been made: whether its argument parses,
\* where the call is, the acknowledgement it returned, and whether its
\* message was placed on the queue.
no_rpc_call ==
    [ pc |-> "idle", parses |-> TRUE, acknowledgement |-> None, placed |-> FALSE ]

\* What is outside the archival state, at the start.
\* ---------------------------------------------- block_height_to_block_headers
\* No call of block_height_to_block_headers is under way.
no_headers_call ==
    [ pc |-> "idle", block_height |-> 0, block_digests |-> << >>, block_headers |-> << >> ]

NodeInit ==
    /\ job = [ j \in Jobs |-> new_job ]
    /\ connection = [ a \in Addresses |-> no_connection ]
    /\ peer_map = [ a \in Addresses |-> None ]
    /\ peer_databases = [ ip \in Ips |-> None ]
    /\ rpc_server_to_main = [ queue |-> << >>, receiver_closed |-> FALSE, received |-> { } ]
    /\ rpc_call = [ c \in Calls |-> no_rpc_call ]
    /\ headers_call = no_headers_call

Init ==
    /\ pool = << >>
    /\ block_index = [ LastFile |-> None, File |-> << >>, Block |-> << >>,
                       Height |-> << >>, Tip |-> None ]
    /\ block_files = << >>
    \* ArchivalState::new on an empty mutator set adds the genesis additions
    /\ ams = apply_additions(EmptyMs, << >>, genesis_block.additions).ms
    /\ ms_block_sync = [ SyncDigest |-> None, Diff |-> << >> ]
    /\ active_window_db = None
    /\ aborted = ""
    /\ last = no_call
    /\ history = [ writes |-> << >>, appended |-> << >>, updates |-> 0,
                   proofs |-> << >>, removes |-> 0, window_calls |-> no_window_calls,
                   synced_ms |-> [ d \in {GenesisDigest} |-> ams ],
                   diff_written |-> << >>, off_tip |-> FALSE ]
    /\ lock_owner = [ l \in Locks |-> 0 ]
    /\ task = [ t \in Tasks |-> [ pc |-> "idle", held |-> 0, block |-> NoDigest ] ]
    /\ NodeInit

is_honest(block) ==
    IF block.hash = GenesisDigest THEN TRUE
    ELSE block.next_ms # block_of(block.prev_block_digest).next_ms

\* The sequences without repetition of at most n elements of S.
RECURSIVE distinct_seqs(_, _)
distinct_seqs(S, n) ==
    IF n = 0 THEN { << >> }
    ELSE LET shorter == distinct_seqs(S, n - 1)
         IN  shorter \cup { Append(q, x) : q \in shorter, x \in S }

injective_seqs(S, n) ==
    { q \in distinct_seqs(S, n) : \A i, j \in DOMAIN q : i # j => q[i] # q[j] }

\* The blocks that a miner or a peer can hand to the node next: a block built
\* on the genesis block or on a stored block, or a block it was handed before.
new_blocks(max_blocks, nadds, max_removals, pows, honesties) ==
    IF Len(pool) >= max_blocks THEN {}
    ELSE UNION { UNION { { make_mock_block(Len(pool) + 1, parent, nadd, spends, pow, honest) :
                           nadd \in nadds, pow \in pows,
                           honest \in { h \in honesties :
                               h \/ Cardinality({ b \in Range(pool) : ~is_honest(b) })
                                      < MaxBadBlocks } } :
                         spends \in injective_seqs(spendable(parent.next_ms), max_removals) } :
                 parent \in { b \in known_blocks : b.height < MaxHeight /\ is_honest(b) } }

\* The index of the block file that is longer in files_after than in files
\* (the number of files when there is none).
grown_file(files, files_after) ==
    LET longer(n) ==
            Len(files_after[n + 1]) > (IF n + 1 <= Len(files) THEN Len(files[n + 1]) ELSE 0)
    IN  IF \E n \in 0..(Len(files_after) - 1) : longer(n)
        THEN CHOOSE n \in 0..(Len(files_after) - 1) : longer(n)
        ELSE Len(files_after)

write_block_of(candidates, passed_values, max_writes) ==
    /\ aborted = ""
    /\ Len(history.writes) < max_writes
    /\ \E new_block \in candidates, current_max_pow_family \in passed_values :
        LET effect == write_block_effect(block_index, block_files, new_block,
                                         current_max_pow_family)
        IN  /\ pool' = IF new_block \in Range(pool) THEN pool ELSE Append(pool, new_block)
            /\ last' = [ no_call EXCEPT !.op = "write_block", !.hash = new_block.hash,
                                        !.passed = current_max_pow_family,
                                        !.tip_before = block_index.Tip ]
            /\ history' =
                 [ history EXCEPT
                     !.writes = Append(@, new_block.hash),
                     !.appended =
                         IF ~effect.ok THEN @
                         ELSE Append(@, [ hash |-> new_block.hash,
                                          file |-> grown_file(block_files, effect.files),
                                          length |-> bincode_size(new_block),
                                          height |-> new_block.height ]) ]
            /\ IF effect.ok
               THEN /\ block_index' = effect.index
                    /\ block_files' = effect.files
                    /\ aborted' = ""
               ELSE /\ aborted' = "If no file record exists, block file must be empty"
                    /\ UNCHANGED << block_index, block_files >>
    /\ UNCHANGED << ams, ms_block_sync, active_window_db >>

\* update_mutator_set is called "after this block has been stored to the
\* database".
update_mutator_set_of(candidates) ==
    /\ aborted = ""
    /\ history.updates < MaxUpdates
    /\ \E new_block \in { b \in candidates : b.hash \in DOMAIN block_index.Block } :
      \E effect \in { update_mutator_set_effect(block_index, block_files, ams,
                                                 ms_block_sync, active_window_db, new_block) } :
            /\ ams' = effect.ms
            /\ ms_block_sync' = effect.sync
            /\ active_window_db' = effect.window_db
            /\ aborted' = effect.abort
            /\ last' = [ no_call EXCEPT !.op = "update_mutator_set",
                                        !.hash = new_block.hash,
                                        !.sync_before = ms_block_sync.SyncDigest,
                                        !.tip_before = block_index.Tip,
                                        !.rolled_back = effect.rolled_back,
                                        !.written_at =
                                            [ i \in DOMAIN effect.rolled_back |->
                                                history.diff_written[effect.rolled_back[i]] ],
                                        !.ms_rolled_back = effect.ms_rolled_back ]
            /\ history' =
                 [ history EXCEPT
                     !.updates = @ + 1,
                     !.off_tip = @ \/ block_index.Tip # Some(new_block.hash),
                     !.synced_ms =
                         IF effect.abort # "" THEN @
                         ELSE [ d \in DOMAIN @ \cup {new_block.hash} |->
                                  IF d = new_block.hash THEN effect.ms ELSE @[d] ],
                     !.diff_written =
                         IF effect.abort # "" THEN @
                         ELSE [ d \in DOMAIN @ \cup {new_block.hash} |->
                                  IF d = new_block.hash THEN history.updates + 1
                                  ELSE @[d] ] ]
    /\ UNCHANGED << pool, block_index, block_files >>

\* Blocks without inputs, of any proof-of-work value.
plain_blocks == new_blocks(MaxBlocks, 1..MaxAdditions, 0, 1..MaxPow, {TRUE}) \cup Range(pool)

\* Blocks with inputs and outputs, honest or not.
blocks_with_inputs ==
    new_blocks(MaxBlocks, 1..MaxAdditions, MaxRemovals, {1}, BOOLEAN) \cup Range(pool)

\* Blocks with one output and the same proof-of-work value.
tree_blocks == new_blocks(MaxTreeBlocks, {1}, 0, {1}, {TRUE}) \cup Range(pool)

\* The previous proof-of-work value as add_block_to_archival_state passes it.
tip_proof_of_work_family ==
    IF IsSome(block_index.Tip)
    THEN Some(block_index.Block[Unwrap(block_index.Tip)].block_header.proof_of_work_family)
    ELSE None

\* write_block with any previous proof-of-work value.
write_block ==
    /\ write_block_of(plain_blocks, { None } \cup { Some(p) : p \in 0..MaxPow }, MaxWrites)
    /\ UNCHANGED << lock_owner, task, node_vars >>

update_mutator_set ==
    /\ update_mutator_set_of(Range(pool))
    /\ UNCHANGED << lock_owner, task, node_vars >>

\* write_block of a block that becomes the tip.
write_block_with_inputs ==
    /\ write_block_of(blocks_with_inputs, { None }, MaxWrites)
    /\ UNCHANGED << lock_owner, task, node_vars >>

Next == write_block \/ update_mutator_set

Spec == Init /\ [][Next]_vars

NextMs == write_block_with_inputs \/ update_mutator_set

SpecMs == Init /\ [][NextMs]_vars

\* write_block of the blocks of a tree of forks, as add_block_to_archival_state
\* stores them.
write_tree_block ==
    /\ write_block_of(tree_blocks, { tip_proof_of_work_family }, MaxTreeWrites)
    /\ UNCHANGED << lock_owner, task, node_vars >>

NextTree == write_tree_block

SpecTree == Init /\ [][NextTree]_vars

\* get_ancestor_block_digests of a known block, in a build with or without
\* overflow checks.
ancestor_block_digests ==
    /\ aborted = ""
    /\ \E block_digest \in DOMAIN block_index.Block \cup { GenesisDigest },
          count \in 0..MaxCount, overflow_checks \in BOOLEAN :
         \E result \in { get_ancestor_block_digests(block_index, block_digest, count,
                                                    overflow_checks) } :
            /\ last' = [ no_call EXCEPT !.op = "get_ancestor_block_digests",
                                        !.hash = block_digest, !.count = count,
                                        !.returned = result.value ]
            /\ aborted' = result.panic
    /\ UNCHANGED << pool, block_index, block_files, ams, ms_block_sync, active_window_db,
                    history, lock_owner, task, node_vars >>

NextAncestors == write_tree_block \/ ancestor_block_digests

SpecAncestors == Init /\ [][NextAncestors]_vars

\* ------------------------------------------------------------ mutator set
\* A mutator set of its own, empty at first, and the owners of its items:
\* history.proofs holds, for every item added, its membership proof, which its
\* owner keeps up to date, and whether the item was removed.
InitSet ==
    /\ pool = << >>
    /\ block_index = [ LastFile |-> None, File |-> << >>, Block |-> << >>,
                       Height |-> << >>, Tip |-> None ]
    /\ block_files = << >>
    /\ ams = EmptyMs
    /\ ms_block_sync = [ SyncDigest |-> None, Diff |-> << >> ]
    /\ active_window_db = None
    /\ aborted = ""
    /\ last = no_call
    /\ history = [ writes |-> << >>, appended |-> << >>, updates |-> 0,
                   proofs |-> << >>, removes |-> 0, window_calls |-> no_window_calls,
                   synced_ms |-> << >>, diff_written |-> << >>, off_tip |-> FALSE ]
    /\ lock_owner = [ l \in Locks |-> 0 ]
    /\ task = [ t \in Tasks |-> [ pc |-> "idle", held |-> 0, block |-> NoDigest ] ]
    /\ NodeInit

\* commit, prove and add of an item: the proofs of the items in the set are
\* updated with the addition record, then add_helper applies it.
mutator_set_add ==
    /\ aborted = ""
    /\ Len(history.proofs) < MaxSetAdds
    /\ \E item \in 0..MaxItem, randomness \in 0..MaxRandomness :
         \E membership_proof \in { prove(ams, item, randomness) } :
            /\ ams' = add_helper(ams, commit(item, randomness))
            /\ history' =
                 [ history EXCEPT !.proofs =
                     Append([ k \in DOMAIN @ |->
                                IF @[k].removed THEN @[k]
                                ELSE [ @[k] EXCEPT !.membership_proof =
                                         update_from_addition(@, history.proofs[k].item, ams) ] ],
                            [ item |-> item, membership_proof |-> membership_proof,
                              removed |-> FALSE ]) ]
            /\ last' = [ no_call EXCEPT
                           !.op = "add", !.item = item,
                           !.membership_proof = membership_proof,
                           !.verified_before =
                               verify_membership_proof(ams, item, membership_proof),
                           !.returned = add_helper_returned(ams, commit(item, randomness)),
                           !.ms_before = ams ]
    /\ UNCHANGED << pool, block_index, block_files, ms_block_sync, active_window_db,
                    aborted, lock_owner, task, node_vars >>

\* drop and remove of an item whose membership proof verifies: the proofs of
\* the other items are updated with the removal record, then remove_helper
\* applies it.
mutator_set_remove ==
    /\ aborted = ""
    /\ history.removes < MaxSetRemoves
    /\ \E k \in DOMAIN history.proofs :
         /\ ~history.proofs[k].removed
         /\ verify_membership_proof(ams, history.proofs[k].item,
                                    history.proofs[k].membership_proof)
         /\ \E removal_record \in { drop_membership_proof(history.proofs[k].item,
                                         history.proofs[k].membership_proof) } :
              /\ IF remove_helper_ok(ams, removal_record)
                 THEN /\ ams' = remove_helper(ams, removal_record).ms
                      /\ aborted' = ""
                 ELSE /\ aborted' = "unwrap on None"
                      /\ UNCHANGED ams
              /\ history' =
                   [ history EXCEPT
                       !.removes = @ + 1,
                       !.proofs =
                         [ j \in DOMAIN @ |->
                             IF j = k THEN [ @[j] EXCEPT !.removed = TRUE ]
                             ELSE IF @[j].removed THEN @[j]
                             ELSE [ @[j] EXCEPT !.membership_proof =
                                      update_from_remove(@, removal_record) ] ] ]
              /\ last' = [ no_call EXCEPT
                             !.op = "remove", !.item = history.proofs[k].item,
                             !.membership_proof = history.proofs[k].membership_proof,
                             !.verified_before = TRUE,
                             !.count = k,
                             !.ms_before = ams ]
    /\ UNCHANGED << pool, block_index, block_files, ms_block_sync, active_window_db,
                    lock_owner, task, node_vars >>

NextSet == mutator_set_add \/ mutator_set_remove

SpecSet == InitSet /\ [][NextSet]_vars

\* ---------------------------------------------------------------- restart
\* A constructor that adds the genesis additions to any mutator set.
new_adding_genesis_always(ms) == apply_additions(ms, << >>, genesis_block.additions).ms

\* The block of ArchivalState::new on the archival mutator set: "If archival
\* mutator set is empty, populate it with the addition records from genesis
\* block".
ArchivalState_new(ms) ==
    IF Len(ms.aocl) = 0 THEN apply_additions(ms, << >>, genesis_block.additions).ms
    ELSE ms

\* ArchivalMutatorSet::new_or_restore as initialize_mutator_set calls it: the
\* AOCL and the inactive chunks of the databases, and the active window of
\* the active-window table.
new_or_restore(ms, window_db) ==
    [ aocl |-> ms.aocl, swbf_inactive |-> ms.swbf_inactive,
      swbf_active |-> IF IsSome(window_db) THEN Unwrap(window_db) ELSE << >> ]

\* The process starts again, after a panic or not: initialize_mutator_set,
\* then ArchivalState::new.
restart ==
    /\ \E restored \in { new_or_restore(ams, active_window_db) } :
          /\ ams' = ArchivalState_new(restored)
          /\ last' = [ no_call EXCEPT !.op = "new", !.ms_before = restored ]
    /\ aborted' = ""
    /\ UNCHANGED << pool, block_index, block_files, ms_block_sync, active_window_db,
                    history, lock_owner, task, node_vars >>

NextRestart == write_tree_block \/ update_mutator_set \/ restart

SpecRestart == Init /\ [][NextRestart]_vars

\* ------------------------------------------------------------ batch_remove
\* drop of some items whose membership proofs verify, and batch_remove of
\* their removal records with the proofs of the other items preserved.
mutator_set_batch_remove ==
    /\ aborted = ""
    /\ history.removes < MaxBatchRemoves
    /\ \E items \in SUBSET DOMAIN history.proofs :
         /\ items # { }
         /\ Cardinality(items) <= MaxBatchSize
         /\ \A k \in items :
               /\ ~history.proofs[k].removed
               /\ verify_membership_proof(ams, history.proofs[k].item,
                                          history.proofs[k].membership_proof)
         /\ \E removal_records \in
                 { [ i \in 1..Cardinality(items) |->
                       drop_membership_proof(history.proofs[SortedSeqOf(items)[i]].item,
                           history.proofs[SortedSeqOf(items)[i]].membership_proof) ] } :
              \E result \in
                  { batch_remove(ams, removal_records,
                        [ k \in DOMAIN history.proofs |-> history.proofs[k].membership_proof ]) } :
                /\ ams' = result.ms
                /\ aborted' = IF result.ok THEN "" ELSE "batch_remove"
                /\ history' =
                     [ history EXCEPT
                         !.removes = @ + 1,
                         !.proofs =
                           [ j \in DOMAIN @ |->
                               IF j \in items THEN [ @[j] EXCEPT !.removed = TRUE ]
                               ELSE IF @[j].removed THEN @[j]
                               ELSE [ @[j] EXCEPT !.membership_proof = result.preserved[j] ] ] ]
                /\ last' = [ no_call EXCEPT
                               !.op = "batch_remove",
                               !.passed = removal_records,
                               !.returned = SortedSeqOf(result.changed_indices),
                               !.ms_before = ams ]
    /\ UNCHANGED << pool, block_index, block_files, ms_block_sync, active_window_db,
                    lock_owner, task, node_vars >>

NextBatch == mutator_set_add \/ mutator_set_batch_remove

SpecBatch == InitSet /\ [][NextBatch]_vars

\* ---------------------------------------------------------- active window
\* An active window of its own, ams.swbf_active, empty at first.
\* ActiveWindow::insert of an index below WINDOW_SIZE.
active_window_insert ==
    /\ aborted = ""
    /\ Len(ams.swbf_active) < MaxInsertions
    /\ \E index \in 0..(WINDOW_SIZE - 1) :
         /\ ams' = [ ams EXCEPT !.swbf_active = insert(@, index) ]
         /\ last' = [ no_call EXCEPT !.op = "insert", !.count = index, !.ms_before = ams ]
    /\ UNCHANGED << pool, block_index, block_files, ms_block_sync, active_window_db,
                    aborted, history, lock_owner, task, node_vars >>

\* slid_chunk, slide_window and slide_window_back of that chunk, one after the
\* other; last.returned is the chunk and last.ms_rolled_back holds the window
\* between the two slides.
slide_window_and_back ==
    /\ aborted = ""
    /\ \E chunk \in { slid_chunk(ams.swbf_active) } :
        \E slid \in { slide_window(ams.swbf_active) } :
         /\ IF slide_window_back_ok(slid)
            THEN /\ ams' = [ ams EXCEPT !.swbf_active = slide_window_back(slid, chunk) ]
                 /\ aborted' = ""
            ELSE /\ ams' = [ ams EXCEPT !.swbf_active = slid ]
                 /\ aborted' =
                      "assertion failed: !self.hasset(WINDOW_SIZE - CHUNK_SIZE, WINDOW_SIZE)"
         /\ last' = [ no_call EXCEPT
                        !.op = "slide_window_and_back", !.returned = chunk,
                        !.ms_rolled_back = [ ams EXCEPT !.swbf_active = slid ],
                        !.ms_before = ams ]
    /\ UNCHANGED << pool, block_index, block_files, ms_block_sync, active_window_db,
                    history, lock_owner, task, node_vars >>

NextWindow == active_window_insert \/ slide_window_and_back

SpecWindow == InitSet /\ [][NextWindow]_vars

\* ------------------------------------------ active window, every operation
\* The operations of ActiveWindow on ams.swbf_active, with arguments that
\* meet their assertions and arguments that do not.
\* The chunks that slide_window_back is called with.
window_chunks ==
    { sort(s) : s \in UNION { [ 1..n -> 0..(CHUNK_SIZE - 1) ] : n \in 0..MaxChunkLen } }

window_call(op, index) ==
    /\ last' = [ no_call EXCEPT !.op = op, !.count = index, !.ms_before = ams ]
    /\ UNCHANGED << pool, block_index, block_files, ms_block_sync, active_window_db,
                    lock_owner, task, node_vars >>

aw_insert ==
    /\ aborted = ""
    /\ history.window_calls.total < MaxWindowCalls
    /\ \E index \in 0..WINDOW_SIZE :
         /\ IF index < WINDOW_SIZE
            THEN /\ ams' = [ ams EXCEPT !.swbf_active = insert(@, index) ]
                 /\ aborted' = ""
                 /\ history' = [ history EXCEPT !.window_calls.total = @ + 1,
                                                !.window_calls.inserted[index] = @ + 1 ]
            ELSE /\ aborted' = "index cannot exceed window size in insert"
                 /\ history' = [ history EXCEPT !.window_calls.total = @ + 1 ]
                 /\ UNCHANGED ams
         /\ window_call("insert", index)

aw_remove ==
    /\ aborted = ""
    /\ history.window_calls.total < MaxWindowCalls
    /\ \E index \in 0..WINDOW_SIZE :
         /\ IF index >= WINDOW_SIZE
            THEN /\ aborted' = "index cannot exceed window size in remove"
                 /\ history' = [ history EXCEPT !.window_calls.total = @ + 1 ]
                 /\ UNCHANGED ams
            ELSE IF ~contains(ams.swbf_active, index)
            THEN /\ aborted' = "Decremented integer is already zero."
                 /\ history' = [ history EXCEPT !.window_calls.total = @ + 1,
                                                !.window_calls.removed[index] = @ + 1 ]
                 /\ UNCHANGED ams
            ELSE /\ ams' = [ ams EXCEPT !.swbf_active = remove(@, index) ]
                 /\ aborted' = ""
                 /\ history' = [ history EXCEPT !.window_calls.total = @ + 1,
                                                !.window_calls.removed[index] = @ + 1 ]
         /\ window_call("remove", index)

aw_slide_window ==
    /\ aborted = ""
    /\ history.window_calls.total < MaxWindowCalls
    /\ ams' = [ ams EXCEPT !.swbf_active = slide_window(@) ]
    /\ history' = [ history EXCEPT !.window_calls.total = @ + 1,
                                   !.window_calls.slides = @ + 1 ]
    /\ window_call("slide_window", 0)
    /\ UNCHANGED aborted

aw_slide_window_back ==
    /\ aborted = ""
    /\ history.window_calls.total < MaxWindowCalls
    /\ \E chunk \in window_chunks :
         /\ IF slide_window_back_ok(ams.swbf_active)
            THEN /\ ams' = [ ams EXCEPT !.swbf_active = slide_window_back(@, chunk) ]
                 /\ aborted' = ""
            ELSE /\ aborted' =
                      "assertion failed: !self.hasset(WINDOW_SIZE - CHUNK_SIZE, WINDOW_SIZE)"
                 /\ UNCHANGED ams
         /\ history' = [ history EXCEPT !.window_calls.total = @ + 1,
                                        !.window_calls.slides = @ + 1 ]
         /\ window_call("slide_window_back", Len(chunk))

NextAw == aw_insert \/ aw_remove \/ aw_slide_window \/ aw_slide_window_back

SpecAw == InitSet /\ [][NextAw]_vars

\* ------------------------------------------------------------------- tasks
lock_order_reversed_by_one(t) ==
    IF t = 1 THEN << "ms_block_sync_db", "archival_mutator_set", "block_databases" >>
    ELSE IF t \in Applications
    THEN << "block_databases", "archival_mutator_set", "ms_block_sync_db" >>
    ELSE << "block_databases" >>

\* The order in which a task takes its locks: a block application takes the
\* three of them, get_latest_block takes the catalog.
lock_order(t) ==
    IF t \in Applications
    THEN << "block_databases", "archival_mutator_set", "ms_block_sync_db" >>
    ELSE << "block_databases" >>

holds(t) == { lock_order(t)[k] : k \in 1..task[t].held }

store_unchanged ==
    UNCHANGED << pool, block_index, block_files, ams, ms_block_sync, active_window_db,
                 aborted, last, history, node_vars >>

\* A task starts: a block application while a block can still be written.
begin(t) ==
    /\ aborted = ""
    /\ task[t].pc = "idle"
    /\ t \in Applications =>
         Len(history.writes)
           + Cardinality({ u \in Applications : task[u].pc \in { "lock", "write" } })
         < MaxApplied
    /\ task' = [ task EXCEPT ![t].pc = "lock" ]
    /\ UNCHANGED lock_owner
    /\ store_unchanged

\* lock().await on the next mutex of the task, which it gets when it is free.
acquire(t) ==
    /\ aborted = ""
    /\ task[t].pc = "lock"
    /\ LET next_lock == lock_order(t)[task[t].held + 1]
       IN  /\ lock_owner[next_lock] = 0
           /\ lock_owner' = [ lock_owner EXCEPT ![next_lock] = t ]
           /\ task' = [ task EXCEPT
                          ![t].held = @ + 1,
                          ![t].pc = IF task[t].held + 1 < Len(lock_order(t)) THEN "lock"
                                    ELSE IF t \in Applications THEN "write" ELSE "read" ]
    /\ store_unchanged

\* Blocks with one output, of any proof-of-work value.
application_blocks == new_blocks(MaxBlocks, {1}, 0, 1..MaxPow, {TRUE})

\* The application stores its block under the three locks ...
apply_write_block(t) ==
    /\ task[t].pc = "write"
    /\ write_block_of(application_blocks, { tip_proof_of_work_family }, MaxApplied)
    /\ task' = [ task EXCEPT ![t].pc = "update", ![t].block = last'.hash ]
    /\ UNCHANGED << lock_owner, node_vars >>

\* ... and updates the mutator set with it.
apply_update_mutator_set(t) ==
    /\ task[t].pc = "update"
    /\ update_mutator_set_of({ block_of(task[t].block) })
    /\ task' = [ task EXCEPT ![t].pc = "unlock" ]
    /\ UNCHANGED << lock_owner, node_vars >>

\* get_latest_block under the lock on the catalog.
read_latest_block(t) ==
    /\ aborted = ""
    /\ task[t].pc = "read"
    /\ get_latest_block(block_index, block_files) \in known_blocks \cup { corrupt_block }
    /\ task' = [ task EXCEPT ![t].pc = "unlock" ]
    /\ UNCHANGED lock_owner
    /\ store_unchanged

\* The guards drop at the end of the scope, the latest first.
release(t) ==
    /\ aborted = ""
    /\ task[t].pc = "unlock"
    /\ lock_owner' = [ lock_owner EXCEPT ![lock_order(t)[task[t].held]] = 0 ]
    /\ task' = [ task EXCEPT ![t].held = @ - 1,
                             ![t].pc = IF task[t].held = 1 THEN "idle" ELSE "unlock",
                             ![t].block = IF task[t].held = 1 THEN NoDigest ELSE @ ]
    /\ store_unchanged

NextLocks ==
    \E t \in Tasks :
        \/ begin(t)
        \/ acquire(t)
        \/ apply_write_block(t)
        \/ apply_update_mutator_set(t)
        \/ read_latest_block(t)
        \/ release(t)

SpecLocks == Init /\ [][NextLocks]_vars


\* -------------------------------------------------------------- Difficulty
\* A difficulty is the list of its limbs, the least significant first.
LIMB_BASE == 2 ^ LIMB_BITS

Limbs == 0..(LIMB_BASE - 1)

MINIMUM == [ i \in 1..DIFFICULTY_NUM_LIMBS |-> IF i = 1 THEN MINIMUM_LIMB ELSE 0 ]

MAXIMUM == [ i \in 1..DIFFICULTY_NUM_LIMBS |-> LIMB_BASE - 1 ]

\* From<Difficulty> for BigUint, of any list of limbs.
RECURSIVE to_biguint(_)
to_biguint(limbs) ==
    IF limbs = << >> THEN 0
    ELSE Head(limbs) + LIMB_BASE * to_biguint(Tail(limbs))

\* Difficulty::from_biguint of a number that fits DIFFICULTY_NUM_LIMBS limbs.
from_biguint(bi) ==
    [ i \in 1..DIFFICULTY_NUM_LIMBS |-> (bi \div (LIMB_BASE ^ (i - 1))) % LIMB_BASE ]

\* Ord for Difficulty: the comparison of the most significant limb that
\* differs decides.
RECURSIVE cmp_less(_, _, _)
cmp_less(lhs, rhs, i) ==
    IF i = 0 THEN FALSE
    ELSE IF lhs[i] # rhs[i] THEN lhs[i] < rhs[i]
    ELSE cmp_less(lhs, rhs, i - 1)

less_than(lhs, rhs) == cmp_less(lhs, rhs, DIFFICULTY_NUM_LIMBS)

\* The first loop of safe_mul_fixed_point_rational from limb i on: the limbs
\* of self * lo, then the carry as one more limb.
RECURSIVE mul_lo(_, _, _, _)
mul_lo(self, lo, i, carry) ==
    IF i > DIFFICULTY_NUM_LIMBS THEN << carry >>
    ELSE LET sum == carry + self[i] * lo
         IN  << sum % LIMB_BASE >> \o mul_lo(self, lo, i + 1, sum \div LIMB_BASE)

\* The second loop from limb i on: self * hi is added to the limbs above the
\* first one. wrapped tells that the u32 addition of the carries overflowed.
RECURSIVE add_mul_hi(_, _, _, _, _, _)
add_mul_hi(self, hi, new_difficulty, i, carry, wrapped) ==
    IF i > DIFFICULTY_NUM_LIMBS
    THEN [ limbs |-> new_difficulty, carry |-> carry, wrapped |-> wrapped ]
    ELSE LET sum == carry + self[i] * hi
             added == new_difficulty[i + 1] + (sum % LIMB_BASE)
             digit == added % LIMB_BASE
             carry_bit == added \div LIMB_BASE
             next_carry == (sum \div LIMB_BASE) + carry_bit
         IN  add_mul_hi(self, hi, [ new_difficulty EXCEPT ![i + 1] = digit ], i + 1,
                        next_carry % LIMB_BASE, wrapped \/ next_carry >= LIMB_BASE)

\* The product without the limb of the overflow.
safe_mul_without_overflow_limb(self, lo, hi) ==
    LET product == add_mul_hi(self, hi, mul_lo(self, lo, 1, 0), 1, 0, FALSE)
    IN  [ difficulty |-> Tail(product.limbs), overflow |-> 0,
          wrapped |-> product.wrapped ]

\* safe_mul_fixed_point_rational: the limbs above the fractional one and the
\* limb of the overflow.
safe_mul_fixed_point_rational(self, lo, hi) ==
    LET product == add_mul_hi(self, hi, mul_lo(self, lo, 1, 0), 1, 0, FALSE)
    IN  [ difficulty |-> Tail(product.limbs), overflow |-> product.carry,
          wrapped |-> product.wrapped ]

\* ------------------------------------------------------ difficulty_control
\* Timestamps are field elements below FIELD_P; i64 values wrap at I64_MODULUS.
FIELD_P == LIMB_BASE * LIMB_BASE - LIMB_BASE + 1

I64_MODULUS == LIMB_BASE * LIMB_BASE

\* Timestamp - Timestamp, the subtraction of the field.
timestamp_sub(lhs, rhs) == (lhs - rhs) % FIELD_P

\* u64 as i64.
as_i64(value) == IF value >= I64_MODULUS \div 2 THEN value - I64_MODULUS ELSE value

in_i64(value) == -(I64_MODULUS \div 2) <= value /\ value < I64_MODULUS \div 2

\* The i64 that a wrapping operation leaves.
wrapping_i64(value) ==
    ((value + I64_MODULUS \div 2) % I64_MODULUS) - I64_MODULUS \div 2

clamp_to_upper_bound_only(value, min, max) == IF value > max THEN max ELSE value

clamp(value, min, max) == IF value < min THEN min ELSE IF value > max THEN max ELSE value

\* The clamped relative error of difficulty_control: the absolute error in
\* i64, times the quotient of one (1 << 32) by the target block interval,
\* clamped. In a build with overflow checks an i64 subtraction that overflows
\* panics, in a build without it wraps.
clamped_error(delta_t, target_block_interval, overflow_checks) ==
    LET difference == as_i64(delta_t) - as_i64(target_block_interval)
        absolute_error == wrapping_i64(difference)
    IN  IF ~in_i64(difference) /\ overflow_checks
        THEN [ panic |-> "attempt to subtract with overflow", value |-> 0 ]
        ELSE IF target_block_interval = 0
        THEN [ panic |-> "attempt to divide by zero", value |-> 0 ]
        ELSE [ panic |-> "",
               value |-> clamp(absolute_error * (LIMB_BASE \div target_block_interval),
                               -LIMB_BASE, 4 * LIMB_BASE) ]

\* The difficulty that an overflow of the product turns into anything.
saturate_never(new_difficulty, overflow) == 
    IF less_than(new_difficulty, MINIMUM) THEN MINIMUM ELSE new_difficulty

\* The last step of difficulty_control.
saturate(new_difficulty, overflow) ==
    IF overflow > 0 THEN MAXIMUM
    ELSE IF less_than(new_difficulty, MINIMUM) THEN MINIMUM
    ELSE new_difficulty

\* difficulty_control; previous_block_height is genesis when it is 0.
difficulty_control(new_timestamp, old_timestamp, old_difficulty, target_block_interval, previous_block_height, overflow_checks) ==
    IF previous_block_height = 0
    THEN [ panic |-> "", value |-> old_difficulty, adjusted |-> FALSE,
           clamped_error |-> 0, overflow |-> 0, product |-> old_difficulty ]
    ELSE LET interval == IF IsSome(target_block_interval) THEN Unwrap(target_block_interval)
                         ELSE TARGET_BLOCK_INTERVAL
             delta_t == timestamp_sub(new_timestamp, old_timestamp)
             error == clamped_error(delta_t, interval, overflow_checks)
             one_plus_p_times_error == LIMB_BASE + ((-error.value) \div (2 ^ 4))
             lo == one_plus_p_times_error % LIMB_BASE
             hi == (one_plus_p_times_error \div LIMB_BASE) % LIMB_BASE
             product == safe_mul_fixed_point_rational(old_difficulty, lo, hi)
         IN  IF error.panic # ""
             THEN [ panic |-> error.panic, value |-> old_difficulty, adjusted |-> FALSE,
                    clamped_error |-> 0, overflow |-> 0, product |-> old_difficulty ]
             ELSE [ panic |-> "", value |-> saturate(product.difficulty, product.overflow),
                    adjusted |-> TRUE, clamped_error |-> error.value,
                    overflow |-> product.overflow, product |-> product.difficulty ]

\* Every difficulty.
Difficulties == { from_biguint(bi) : bi \in 0..(LIMB_BASE ^ DIFFICULTY_NUM_LIMBS - 1) }

\* The timestamps of blocks: small ones, and one that does not fit an i64.
Timestamps == (0..MaxTimestamp) \cup { I64_MODULUS \div 2 + 1 }

\* One call of difficulty_control on any difficulty, in a build with or
\* without overflow checks.
next_difficulty ==
    /\ aborted = ""
    /\ last.op = "none"
    /\ \E old_difficulty \in Difficulties, new_timestamp \in Timestamps,
          old_timestamp \in { 0, MaxTimestamp \div 2 },
          target_block_interval \in { None } \cup { Some(t) : t \in 1..MaxTargetInterval },
          previous_block_height \in 0..1, overflow_checks \in BOOLEAN :
         \E result \in { difficulty_control(new_timestamp, old_timestamp, old_difficulty,
                                             target_block_interval, previous_block_height,
                                             overflow_checks) } :
            /\ last' = [ no_call EXCEPT
                           !.op = "difficulty_control",
                           !.passed = << new_timestamp, old_timestamp, old_difficulty,
                                         target_block_interval, previous_block_height >>,
                           !.returned = result ]
            /\ aborted' = result.panic
    /\ UNCHANGED << pool, block_index, block_files, ams, ms_block_sync, active_window_db,
                    history, lock_owner, task, node_vars >>

NextDifficulty == next_difficulty

SpecDifficulty == Init /\ [][NextDifficulty]_vars

\* ------------------------------------ mul_by_fixed_point_rational_distributes
\* The second difficulties and the integer parts of the factors that the
\* products are taken of.
Addends == { from_biguint(bi) : bi \in 0..MaxAddend }

IntegerParts == (0..MaxHi) \cup { LIMB_BASE - 1 }

\* One run of the property test: the products of two difficulties with one
\* factor, each with its overflow limb as a number; a pair whose sum does
\* not fit the limbs is ignored.
mul_by_fixed_point_rational_distributes ==
    /\ aborted = ""
    /\ last.op = "none"
    /\ \E a \in Difficulties, b \in Addends, lo \in Limbs, hi \in IntegerParts :
          \E ra \in { safe_mul_fixed_point_rational(a, lo, hi) },
             rb \in { safe_mul_fixed_point_rational(b, lo, hi) } :
            last' = [ no_call EXCEPT
                        !.op = "safe_mul_fixed_point_rational",
                        !.passed = << a, b, lo, hi >>,
                        !.returned =
                            IF to_biguint(a) + to_biguint(b) >= LIMB_BASE ^ DIFFICULTY_NUM_LIMBS
                            THEN << >>
                            ELSE << [ r_times_a_bui |-> to_biguint(ra.difficulty \o << ra.overflow >>),
                                      r_times_b_bui |-> to_biguint(rb.difficulty \o << rb.overflow >>),
                                      overflow |-> << ra.overflow, rb.overflow >>,
                                      wrapped |-> ra.wrapped \/ rb.wrapped ] >> ]
    /\ UNCHANGED << pool, block_index, block_files, ams, ms_block_sync, active_window_db,
                    aborted, history, lock_owner, task, node_vars >>

NextMul == mul_by_fixed_point_rational_distributes

SpecMul == Init /\ [][NextMul]_vars

\* ------------------------------------------ safe_mul_fixed_point_rational
\* One call of safe_mul_fixed_point_rational on any difficulty and any two
\* limbs of a factor.
mul_fixed_point_rational ==
    /\ aborted = ""
    /\ last.op = "none"
    /\ \E self \in Difficulties, lo \in Limbs, hi \in Limbs :
          last' = [ no_call EXCEPT
                      !.op = "safe_mul_fixed_point_rational",
                      !.passed = << self, lo, hi >>,
                      !.returned = safe_mul_fixed_point_rational(self, lo, hi) ]
    /\ UNCHANGED << pool, block_index, block_files, ams, ms_block_sync, active_window_db,
                    aborted, history, lock_owner, task, node_vars >>

NextProduct == mul_fixed_point_rational

SpecProduct == Init /\ [][NextProduct]_vars

\* ---------------------------------------------- block_height_to_block_headers
\* The rest of the state, which a lookup leaves alone.
headers_only ==
    UNCHANGED << pool, block_index, block_files, ams, ms_block_sync, active_window_db,
                 last, history, lock_owner, task, job, connection, peer_map,
                 peer_databases, rpc_server_to_main, rpc_call >>

\* A catalog that finds the Block records of the first block file only.
get_block_record_of_first_file(index, block_digest) ==
    IF block_digest \in DOMAIN index.Block /\ index.Block[block_digest].file_index = 0
    THEN Some(index.Block[block_digest]) ELSE None

\* block_index.get(BlockIndexKey::Block(block_digest)).map(|x| x.as_block_record())
get_block_record(index, block_digest) ==
    IF block_digest \in DOMAIN index.Block THEN Some(index.Block[block_digest]) ELSE None

\* block_index.get(BlockIndexKey::Height(block_height)).map(|x| x.as_height_record())
get_height_record(index, block_height) ==
    IF block_height \in DOMAIN index.Height THEN Some(index.Height[block_height]) ELSE None

\* The first lock of block_height_to_block_headers: the Height record is read
\* and the lock is released.
lookup_height(block_height) ==
    /\ aborted = ""
    /\ headers_call.pc = "idle"
    /\ \E maybe_digests \in { get_height_record(block_index, block_height) } :
          headers_call' =
              [ pc |-> IF IsSome(maybe_digests) /\ Unwrap(maybe_digests) # << >>
                       THEN "blocks" ELSE "returned",
                block_height |-> block_height,
                block_digests |-> IF IsSome(maybe_digests) THEN Unwrap(maybe_digests) ELSE << >>,
                block_headers |-> << >> ]
    /\ UNCHANGED aborted
    /\ headers_only

\* One turn of the loop: the lock is taken again, the Block record of the next
\* digest is looked up and unwrapped, and the lock is released.
lookup_block ==
    /\ aborted = ""
    /\ headers_call.pc = "blocks"
    /\ \E block_record \in
            { get_block_record(block_index,
                  headers_call.block_digests[Len(headers_call.block_headers) + 1]) } :
          IF IsSome(block_record)
          THEN /\ headers_call' =
                    [ headers_call EXCEPT
                        !.block_headers = Append(@, Unwrap(block_record).block_header),
                        !.pc = IF Len(headers_call.block_headers) + 1
                                    = Len(headers_call.block_digests)
                               THEN "returned" ELSE "blocks" ]
               /\ UNCHANGED aborted
          ELSE /\ aborted' = "called Option::unwrap() on a None value"
               /\ UNCHANGED headers_call
    /\ headers_only

\* The caller takes the headers.
headers_returned ==
    /\ aborted = ""
    /\ headers_call.pc = "returned"
    /\ headers_call' = no_headers_call
    /\ UNCHANGED aborted
    /\ headers_only

\* Lookups of one task while other tasks store the blocks of a tree of forks.
NextHeaders ==
    \/ write_tree_block
    \/ \E block_height \in 0..(MaxHeight + 1) : lookup_height(block_height)
    \/ lookup_block
    \/ headers_returned

SpecHeaders == Init /\ [][NextHeaders]_vars

\* ---------------------------------------------------- run_async_cancellable
\* The rest of the state, which no job touches.
jobs_only ==
    UNCHANGED << pool, block_index, block_files, ams, ms_block_sync, active_window_db,
                 aborted, last, history, lock_owner, task, connection, peer_map,
                 peer_databases, rpc_server_to_main, rpc_call, headers_call >>

\* A receiver that is ready only when a version was sent.
changed_on_message_only(j) == job[j].version # job[j].seen

\* rx.changed() of the watch receiver is ready when a version was sent that
\* the receiver has not seen, or when the sender is gone.
changed(j) == job[j].version # job[j].seen \/ job[j].sender_dropped

\* run_async of job j completes at its j-th poll, with a result of j parts.
polls_of(j) == j

\* A select that hands out what run_async has built when it is cancelled.
select_yielding_parts(changed_ready, polled, parts, complete) ==
    IF polled /\ complete THEN Some(Finished(parts))
    ELSE IF changed_ready THEN Some(Finished(parts))
    ELSE None

\* The completion that one poll of the select of run_async_cancellable
\* resolves to, None while both branches are pending: changed_ready is the
\* poll of rx.changed(), polled tells whether run_async was polled, parts and
\* complete are what run_async has built and whether it has returned.
select(changed_ready, polled, parts, complete) ==
    IF polled /\ complete THEN Some(Finished(parts))
    ELSE IF changed_ready THEN Some(Cancelled)
    ELSE None

\* The holder of the JobCancelSender sends the cancel message.
cancel(j) ==
    /\ ~job[j].sender_dropped
    /\ job[j].version < MaxCancels
    /\ job' = [ job EXCEPT ![j].version = @ + 1 ]
    /\ jobs_only

\* The JobCancelSender is dropped.
drop_cancel_sender(j) ==
    /\ ~job[j].sender_dropped
    /\ job' = [ job EXCEPT ![j].sender_dropped = TRUE ]
    /\ jobs_only

\* One poll of the future of run_async_cancellable: select polls its two
\* branches in an order it draws. A branch found ready resolves the select
\* and the other branch is not polled; a poll of run_async builds one more
\* part of the result. Once resolved, the future is not polled again.
run_async_cancellable(j) ==
    /\ job[j].completion = None
    /\ \E changed_first \in BOOLEAN :
          LET polled == ~(changed_first /\ changed(j))
              parts == IF polled THEN job[j].parts + 1 ELSE job[j].parts
              complete == parts = polls_of(j)
              completion == select(changed(j), polled, parts, complete)
          IN  job' = [ job EXCEPT
                         ![j].parts = parts,
                         ![j].completion = completion,
                         ![j].resolved = IF completion = None THEN @ ELSE @ + 1,
                         ![j].cancel_observed = IsSome(completion) /\ ~(polled /\ complete),
                         ![j].seen = IF IsSome(completion) /\ ~(polled /\ complete)
                                     THEN job[j].version ELSE @ ]
    /\ jobs_only

NextJob ==
    \E j \in Jobs :
        \/ cancel(j)
        \/ drop_cancel_sender(j)
        \/ run_async_cancellable(j)

SpecJob == Init /\ [][NextJob]_vars

\* The runtime polls a future that is ready to make progress.
FairSpecJob == SpecJob /\ \A j \in Jobs : WF_vars(run_async_cancellable(j))

\* ------------------------------------------------------------ answer_peer
\* The rest of the state, which no connection touches.
peers_only ==
    UNCHANGED << pool, block_index, block_files, ams, ms_block_sync, active_window_db,
                 aborted, last, history, lock_owner, task, job, peer_databases,
                 rpc_server_to_main, rpc_call, headers_call >>

\* The addresses with a peer in the map, and the instance ids of the peers.
connected(peers) == { a \in Addresses : peers[a] # None }

instance_ids(peers) == { peers[a][1].instance_id : a \in connected(peers) }

\* A connection decision that knows no limit on the number of peers.
connection_statuses_without_limit(max_peers, peers, own_handshake_data, other_handshake) ==
    LET reasons ==
            { r \in { "SelfConnect", "AlreadyConnected" } :
                \/ r = "SelfConnect"
                     /\ other_handshake.instance_id = own_handshake_data.instance_id
                \/ r = "AlreadyConnected"
                     /\ other_handshake.instance_id \in instance_ids(peers) }
    IN  IF reasons = { } THEN { Accepted } ELSE { Refused(r) : r \in reasons }

\* get_connection_status: Accepted unless a reason to refuse applies; the
\* order in which the reasons are looked at is not fixed here, so that every
\* reason that applies is a status it may return.
connection_statuses(max_peers, peers, own_handshake_data, other_handshake) ==
    LET reasons ==
            { r \in { "SelfConnect", "MaxPeerNumberExceeded", "AlreadyConnected" } :
                \/ r = "SelfConnect"
                     /\ other_handshake.instance_id = own_handshake_data.instance_id
                \/ r = "MaxPeerNumberExceeded"
                     /\ Cardinality(connected(peers)) >= max_peers
                \/ r = "AlreadyConnected"
                     /\ other_handshake.instance_id \in instance_ids(peers) }
    IN  IF reasons = { } THEN { Accepted } ELSE { Refused(r) : r \in reasons }

\* A peer connects and sends its first message, a handshake.
incoming_connection(a) ==
    /\ connection[a].pc = "idle"
    /\ Cardinality({ b \in Addresses : connection[b].pc # "idle" }) < MaxInbound
    /\ \E magic \in { MAGIC_STRING_REQUEST, MAGIC_STRING_RESPONSE },
          network \in Networks, instance_id \in 0..MaxInstanceId :
          connection' =
              [ connection EXCEPT
                  ![a].pc = "incoming",
                  ![a].first = Some(Handshake(magic, [ instance_id |-> instance_id,
                                                       network |-> network ])) ]
    /\ UNCHANGED peer_map
    /\ peers_only

\* answer_peer up to the peer loop: the first message is read; a wrong magic
\* value ends the connection; otherwise the handshake of the node is written,
\* a peer of another network is dropped, and the connection status is
\* written; an accepted peer enters the peer map.
answer_peer(a) ==
    /\ connection[a].pc = "incoming"
    /\ \E first \in { connection[a].first[1] } :
          IF first.magic # MAGIC_STRING_REQUEST
          THEN /\ connection' = [ connection EXCEPT ![a].pc = "failed",
                                                    ![a].outcome = "rejected" ]
               /\ UNCHANGED peer_map
          ELSE IF first.handshake_data.network # own_handshake.network
          THEN /\ connection' =
                     [ connection EXCEPT
                         ![a].pc = "failed",
                         ![a].outcome = "dropped",
                         ![a].sent = << Handshake(MAGIC_STRING_RESPONSE, own_handshake) >> ]
               /\ UNCHANGED peer_map
          ELSE \E status \in connection_statuses(args_max_peers, peer_map, own_handshake,
                                                 first.handshake_data) :
                 /\ connection' =
                       [ connection EXCEPT
                           ![a].pc = IF status = Accepted THEN "connected" ELSE "failed",
                           ![a].outcome = IF status = Accepted THEN "accepted" ELSE "refused",
                           ![a].sent = << Handshake(MAGIC_STRING_RESPONSE, own_handshake),
                                          ConnectionStatus(status) >>,
                           ![a].peer_map_seen = Some(peer_map) ]
                 /\ peer_map' =
                       IF status = Accepted
                       THEN [ peer_map EXCEPT
                                ![a] = Some([ instance_id |-> first.handshake_data.instance_id,
                                              standing |-> default_standing ]) ]
                       ELSE peer_map
    /\ peers_only

\* The peer loop reads Bye: the peer leaves the peer map and the connection
\* is closed.
bye(a) ==
    /\ connection[a].pc = "connected"
    /\ connection' = [ connection EXCEPT ![a].pc = "closed" ]
    /\ peer_map' = [ peer_map EXCEPT ![a] = None ]
    /\ peers_only

NextPeers ==
    \E a \in Addresses :
        \/ incoming_connection(a)
        \/ answer_peer(a)
        \/ bye(a)

SpecPeers == Init /\ [][NextPeers]_vars

\* -------------------------------------------------------- peer standings
\* The rest of the state, which no standing touches.
standings_only ==
    UNCHANGED << pool, block_index, block_files, ams, ms_block_sync, active_window_db,
                 aborted, history, lock_owner, task, job, connection,
                 rpc_server_to_main, rpc_call, headers_call >>

\* get_dummy_peer: a peer in good standing.
get_dummy_peer(address) ==
    [ instance_id |-> (address[1] - 1) * NumPorts + address[2],
      standing |-> default_standing ]

\* The peers of one port only.
peers_of_ip_at_first_port(peers, ip) ==
    { a \in Addresses : peers[a] # None /\ a = << ip, 1 >> }

\* The socket addresses of the peer map whose IP address is ip.
peers_of_ip(peers, ip) ==
    { a \in Addresses : peers[a] # None /\ a[1] = ip }

\* clear_standing of the peers at the given addresses.
clear_standing(peers, addresses) ==
    [ a \in Addresses |->
        IF a \in addresses
        THEN Some([ peers[a][1] EXCEPT !.standing = default_standing ])
        ELSE peers[a] ]

\* clear_ip_standing_in_database and clear_all_standings_in_database: the
\* standings stored for the given IP addresses are put back to the default.
clear_standings_in_database(peer_standings, ips) ==
    [ ip \in Ips |->
        IF ip \in ips /\ peer_standings[ip] # None
        THEN Some(default_standing)
        ELSE peer_standings[ip] ]

\* The setup of the tests: a peer enters the peer map.
add_peer(a) ==
    /\ last.op = "none"
    /\ peer_map[a] = None
    /\ peer_map' = [ peer_map EXCEPT ![a] = Some(get_dummy_peer(a)) ]
    /\ UNCHANGED << last, peer_databases >>
    /\ standings_only

\* A peer of the peer map leaves it; its standing stays in the database.
remove_peer(a) ==
    /\ last.op = "none"
    /\ peer_map[a] # None
    /\ peer_map' = [ peer_map EXCEPT ![a] = None ]
    /\ UNCHANGED << last, peer_databases >>
    /\ standings_only

\* A peer is sanctioned and write_peer_standing_on_increase stores its
\* standing for its IP address, unless a standing at least as bad is there.
sanction(a) ==
    /\ last.op = "none"
    /\ peer_map[a] # None
    /\ peer_map[a][1].standing.standing < MaxStanding
    /\ \E standing \in { [ standing |-> peer_map[a][1].standing.standing + 1,
                            latest_sanction |-> Some("DifferentGenesis") ] } :
          /\ peer_map' = [ peer_map EXCEPT ![a] = Some([ @[1] EXCEPT !.standing = standing ]) ]
          /\ peer_databases' =
                IF \/ peer_databases[a[1]] = None
                   \/ peer_databases[a[1]][1].standing < standing.standing
                THEN [ peer_databases EXCEPT ![a[1]] = Some(standing) ]
                ELSE peer_databases
    /\ UNCHANGED last
    /\ standings_only

\* RPC clear_ip_standing.
clear_ip_standing(ip) ==
    /\ last.op = "none"
    /\ peer_map' = clear_standing(peer_map, peers_of_ip(peer_map, ip))
    /\ peer_databases' = clear_standings_in_database(peer_databases, { ip })
    /\ last' = [ no_call EXCEPT !.op = "clear_ip_standing", !.passed = << ip >>,
                                 !.returned = << peer_map, peer_databases >> ]
    /\ standings_only

\* RPC clear_all_standings.
clear_all_standings ==
    /\ last.op = "none"
    /\ peer_map' = clear_standing(peer_map, connected(peer_map))
    /\ peer_databases' = clear_standings_in_database(peer_databases, Ips)
    /\ last' = [ no_call EXCEPT !.op = "clear_all_standings",
                                 !.returned = << peer_map, peer_databases >> ]
    /\ standings_only

NextStandings ==
    \/ \E a \in Addresses : add_peer(a) \/ remove_peer(a) \/ sanction(a)
    \/ \E ip \in Ips : clear_ip_standing(ip)
    \/ clear_all_standings

SpecStandings == Init /\ [][NextStandings]_vars

\* --------------------------------------------------------------- RPC send
\* The rest of the state, which RPC send does not touch.
send_only ==
    UNCHANGED << pool, block_index, block_files, ams, ms_block_sync, active_window_db,
                 aborted, last, history, lock_owner, task, job, connection, peer_map,
                 peer_databases, headers_call >>

\* A sender that answers a full queue with an error.
try_send(channel, message) ==
    IF channel.receiver_closed \/ Len(channel.queue) >= RPC_CHANNEL_CAPACITY
    THEN [ result |-> "Err", queue |-> channel.queue ]
    ELSE [ result |-> "Ok", queue |-> Append(channel.queue, message) ]

\* Sender::send as far as one poll takes it: an error once the receiver is
\* closed, the message placed where the queue has room, and pending while
\* the queue is full.
sender_send(channel, message) ==
    IF channel.receiver_closed
    THEN [ result |-> "Err", queue |-> channel.queue ]
    ELSE IF Len(channel.queue) < RPC_CHANNEL_CAPACITY
    THEN [ result |-> "Ok", queue |-> Append(channel.queue, message) ]
    ELSE [ result |-> "Pending", queue |-> channel.queue ]

\* The call from step 4 on: the message is sent to main and the
\* acknowledgement is response.is_ok(); block_on keeps the call waiting while
\* the send is pending.
send_to_main(c) ==
    \E response \in { sender_send(rpc_server_to_main, c) } :
        /\ rpc_server_to_main' = [ rpc_server_to_main EXCEPT !.queue = response.queue ]
        /\ rpc_call' =
              [ rpc_call EXCEPT
                  ![c].pc = IF response.result = "Pending" THEN "waiting" ELSE "returned",
                  ![c].placed = response.result = "Ok",
                  ![c].acknowledgement =
                      IF response.result = "Pending" THEN None
                      ELSE Some(response.result = "Ok") ]

\* RPC send: the argument is parsed with unwrap, which panics on an argument
\* that does not parse; the transactions are built and sent to main.
send(c) ==
    /\ rpc_call[c].pc = "idle"
    /\ \E parses \in BOOLEAN :
          IF ~parses
          THEN /\ rpc_call' = [ rpc_call EXCEPT ![c].pc = "panicked", ![c].parses = FALSE ]
               /\ UNCHANGED rpc_server_to_main
          ELSE send_to_main(c)
    /\ send_only

\* A call that waits for room in the queue is woken.
send_woken(c) ==
    /\ rpc_call[c].pc = "waiting"
    /\ sender_send(rpc_server_to_main, c).result # "Pending"
    /\ send_to_main(c)
    /\ send_only

\* The main loop takes the next message from the queue.
main_loop_recv ==
    /\ ~rpc_server_to_main.receiver_closed
    /\ rpc_server_to_main.queue # << >>
    /\ rpc_server_to_main' =
          [ rpc_server_to_main EXCEPT
              !.queue = Tail(@),
              !.received = @ \cup { Head(rpc_server_to_main.queue) } ]
    /\ UNCHANGED rpc_call
    /\ send_only

\* The main loop ends: the receiver of the queue is dropped.
main_loop_ended ==
    /\ ~rpc_server_to_main.receiver_closed
    /\ rpc_server_to_main' = [ rpc_server_to_main EXCEPT !.receiver_closed = TRUE ]
    /\ UNCHANGED rpc_call
    /\ send_only

NextSend ==
    \/ \E c \in Calls : send(c) \/ send_woken(c)
    \/ main_loop_recv
    \/ main_loop_ended

SpecSend == Init /\ [][NextSend]_vars

\* -------------------------------------------------------------- properties
\* The digests of a block and of its ancestors down to the genesis block.
RECURSIVE chain_of(_)
chain_of(digest) ==
    IF digest = GenesisDigest THEN { GenesisDigest }
    ELSE { digest } \cup chain_of(block_of(digest).prev_block_digest)

stored_blocks == { b \in Range(pool) : b.hash \in DOMAIN block_index.Block }

sync_digest(sync) == IF IsSome(sync.SyncDigest) THEN Unwrap(sync.SyncDigest) ELSE GenesisDigest

update_returned == last.op = "update_mutator_set" /\ aborted = ""

rollback_aborts == { "Empty ms_block_sync_db", "Fetching block must succeed", "revert_add",
                     "Diff missing", "revert_remove" }

\* The absolute indices of the bits that are set in the Bloom filter of a
\* mutator set.
set_indices(ms) ==
    { i \in 0..(Len(ms.swbf_inactive) * CHUNK_SIZE + WINDOW_SIZE - 1) : bit_is_set(ms, i) }

\* ---- C1
\* Whenever update_mutator_set(B) returns, the commitment of the archival
\* mutator set is the commitment of B's next_mutator_set_accumulator.
C1_CommitmentOfNewBlock ==
    update_returned =>
        get_commitment(ams) = get_commitment(block_of(last.hash).next_ms)

\* update_mutator_set returned for a block with removal records after it
\* rolled blocks back.
C1_Witness ==
    /\ update_returned
    /\ block_of(last.hash).removals # << >>
    /\ last.rolled_back # << >>

\* ---- C2
\* When update_mutator_set is called with a block whose parent P is the synced
\* block or one of its ancestors, the rollback phase ends without a panic and
\* leaves the AOCL, the inactive chunks and the active window exactly as they
\* were when the mutator set was synced to P.
C2_RollbackRestores ==
    ( /\ last.op = "update_mutator_set"
      /\ block_of(last.hash).prev_block_digest
           \in chain_of(IF IsSome(last.sync_before) THEN Unwrap(last.sync_before)
                        ELSE GenesisDigest) )
    => /\ aborted \notin rollback_aborts
       /\ last.ms_rolled_back = history.synced_ms[block_of(last.hash).prev_block_digest]

\* Two blocks were rolled back, one that had set bits of the Bloom filter, and
\* the rollback slid the window back.
C2_Witness ==
    /\ update_returned
    /\ Len(last.rolled_back) >= 2
    /\ \E i \in DOMAIN last.rolled_back : ms_block_sync.Diff[last.rolled_back[i]] # << >>
    /\ Len(history.synced_ms[Unwrap(last.sync_before)].swbf_inactive)
         > Len(last.ms_rolled_back.swbf_inactive)
    /\ Len(block_of(last.rolled_back[1]).additions) >= 2

\* ---- C3
\* The rollback starts at the synced block and follows prev_block_digest, one
\* block at a time and with strictly decreasing height; no block is reverted
\* twice; the loop ends exactly when the cursor is the parent of the new block;
\* and the Diff entries are replayed in the reverse of the order in which they
\* were written.
C3_RollbackWalk ==
    last.op = "update_mutator_set" =>
        LET walk == last.rolled_back
            parent == block_of(last.hash).prev_block_digest
            start == IF IsSome(last.sync_before) THEN Unwrap(last.sync_before)
                     ELSE GenesisDigest
        IN  /\ walk # << >> => walk[1] = start
            /\ \A i \in 1..(Len(walk) - 1) :
                 /\ walk[i + 1] = block_of(walk[i]).prev_block_digest
                 /\ block_of(walk[i + 1]).height < block_of(walk[i]).height
                 /\ last.written_at[i + 1] < last.written_at[i]
            /\ \A i, j \in DOMAIN walk : i # j => walk[i] # walk[j]
            /\ \A i \in DOMAIN walk : walk[i] # parent
            /\ aborted \notin rollback_aborts =>
                 parent = IF walk = << >> THEN start
                          ELSE block_of(walk[Len(walk)]).prev_block_digest

\* A rollback of two blocks, the block of height 2 before the block of
\* height 1, for a competing block of height 1.
C3_Witness ==
    /\ update_returned
    /\ Len(last.rolled_back) = 2
    /\ block_of(last.rolled_back[1]).height = 2
    /\ block_of(last.rolled_back[2]).height = 1
    /\ last.hash \notin Range(last.rolled_back)

\* ---- C7
\* When update_mutator_set(B) returns, SyncDigest is B's digest and Diff(B) is
\* the ascending list without duplicates of exactly the indices that B's
\* removals flipped from 0 to 1; and a SyncDigest always has its Diff entry.
C7_SyncDigestAndDiff ==
    /\ IsSome(ms_block_sync.SyncDigest) =>
         Unwrap(ms_block_sync.SyncDigest) \in DOMAIN ms_block_sync.Diff
    /\ update_returned =>
         LET diff == ms_block_sync.Diff[last.hash]
         IN  /\ ms_block_sync.SyncDigest = Some(last.hash)
             /\ \A i \in 1..(Len(diff) - 1) : diff[i] < diff[i + 1]
             /\ Range(diff) = set_indices(ams) \ set_indices(last.ms_rolled_back)

\* update_mutator_set returned for a block with two removal records whose
\* flipped indices were not found in ascending order.
C7_Witness ==
    /\ update_returned
    /\ Len(block_of(last.hash).removals) = 2
    /\ LET added == apply_additions(last.ms_rolled_back, block_of(last.hash).removals,
                                    block_of(last.hash).additions)
       IN  apply_removals(added.ms, added.removal_records, << >>).changed_indices
             # ms_block_sync.Diff[last.hash]

\* ---- C4
\* A task that holds the archival mutator set holds the catalog, a task that
\* holds the ms-sync table holds the archival mutator set, a lock has one
\* owner, and no set of tasks waits for locks that its own members hold.
C4_LockOrder ==
    /\ \A t \in Tasks :
         /\ "archival_mutator_set" \in holds(t) => "block_databases" \in holds(t)
         /\ "ms_block_sync_db" \in holds(t) => "archival_mutator_set" \in holds(t)
         /\ \A l \in Locks : (lock_owner[l] = t) <=> (l \in holds(t))
    /\ ~ \E waiting \in SUBSET Tasks :
           /\ waiting # {}
           /\ \A t \in waiting :
                /\ task[t].pc = "lock"
                /\ lock_owner[lock_order(t)[task[t].held + 1]] \in waiting

\* One application holds the three locks and is about to update the mutator
\* set while the other application and the reader wait for the catalog.
C4_Witness ==
    /\ \E t \in Applications : task[t].held = 3 /\ task[t].pc = "update"
    /\ \E t \in Applications : task[t].held = 0 /\ task[t].pc = "lock"
    /\ task[Reader].pc = "lock"

\* ---- C5
\* When Tip is present, the Block record of the block it names is present and
\* reading the latest block from disk returns that block; a step that changes
\* Tip writes the Block record of the new tip in the same batch; and no step
\* deletes a Block record.
C5_TipHasItsBlock ==
    /\ [](IsSome(block_index.Tip) =>
            /\ Unwrap(block_index.Tip) \in DOMAIN block_index.Block
            /\ get_latest_block_from_disk(block_index, block_files)
                 = Some(block_of(Unwrap(block_index.Tip))))
    /\ [][ /\ DOMAIN block_index.Block \subseteq DOMAIN block_index'.Block
           /\ block_index'.Tip # block_index.Tip =>
                /\ last'.op = "write_block"
                /\ block_index'.Tip = Some(last'.hash)
                /\ block_index'.Block[last'.hash].block_header
                     = header_of(pool'[last'.hash]) ]_vars

\* The tip is a block of the first file and it stayed the tip when a block
\* was written to the second file.
C5_Witness ==
    /\ IsSome(block_index.Tip)
    /\ last.op = "write_block"
    /\ block_index.Tip # Some(last.hash)
    /\ block_index.Block[Unwrap(block_index.Tip)].file_index = 0
    /\ block_index.Block[last.hash].file_index = 1

\* ---- C6
\* While the process runs and no block application holds a lock, and when
\* every update_mutator_set call so far was made for the block that Tip named,
\* the block named by SyncDigest (the genesis block when SyncDigest is absent)
\* is the block named by Tip or one of its ancestors.
C6_SyncedToTipOrAncestor ==
    ( /\ aborted = ""
      /\ \A t \in Applications : task[t].held = 0
      /\ IsSome(block_index.Tip)
      /\ ~history.off_tip )
    => sync_digest(ms_block_sync) \in chain_of(Unwrap(block_index.Tip))

\* Two applications have made their blocks the tip one after the other, the
\* second one a competing block, so that its update rolled the first one back.
C6_Witness ==
    /\ aborted = ""
    /\ \A t \in Applications : task[t].held = 0
    /\ IsSome(block_index.Tip)
    /\ ~history.off_tip
    /\ history.updates >= 2
    /\ last.rolled_back # << >>
    /\ ms_block_sync.SyncDigest = block_index.Tip

\* The statement for every sequence of calls, those for blocks that did not
\* become the tip included.
C6_AnySequenceOfCalls ==
    ( /\ aborted = ""
      /\ \A t \in Applications : task[t].held = 0
      /\ IsSome(block_index.Tip) )
    => sync_digest(ms_block_sync) \in chain_of(Unwrap(block_index.Tip))

\* ---- C8
\* get_block returns every block that write_block has stored, whatever was
\* stored after it; it returns the genesis block, which has no Block record,
\* for the digest of the genesis block; and it returns None for a digest that
\* was never written.
C8_GetBlock ==
    /\ \A b \in stored_blocks : get_block(block_index, block_files, b.hash) = Some(b)
    /\ GenesisDigest \notin DOMAIN block_index.Block
    /\ get_block(block_index, block_files, GenesisDigest) = Some(genesis_block)
    /\ \A digest \in 1..(MaxBlocks + 1) :
         digest \notin Range(history.writes) =>
            get_block(block_index, block_files, digest) = None

\* Three distinct blocks are stored, two of them in one file, the second of
\* these past the first, and one in the next file.
C8_Witness ==
    /\ Cardinality(stored_blocks) = 3
    /\ \E a, b, c \in stored_blocks :
         /\ block_index.Block[a.hash].file_index = block_index.Block[b.hash].file_index
         /\ block_index.Block[a.hash].offset = 0
         /\ block_index.Block[b.hash].offset = block_index.Block[a.hash].block_length
         /\ block_index.Block[c.hash].file_index # block_index.Block[a.hash].file_index

\* ---- C9
\* write_block sets Tip to the new block exactly when no previous
\* proof-of-work value is passed or the block's proof_of_work_family is
\* strictly greater than the passed value, and otherwise leaves Tip as it was;
\* get_latest_block returns the block that Tip names, and the genesis block
\* exactly when Tip is absent.
C9_TipRule ==
    /\ last.op = "write_block" =>
         block_index.Tip =
            IF ~IsSome(last.passed) THEN Some(last.hash)
            ELSE IF block_of(last.hash).proof_of_work_family > Unwrap(last.passed)
            THEN Some(last.hash)
            ELSE last.tip_before
    /\ get_latest_block(block_index, block_files) =
         IF IsSome(block_index.Tip) THEN block_of(Unwrap(block_index.Tip)) ELSE genesis_block
    /\ (get_latest_block(block_index, block_files) = genesis_block)
         <=> ~IsSome(block_index.Tip)

\* A block was written with its own proof_of_work_family passed as the
\* previous value, and the earlier tip stayed.
C9_Witness ==
    /\ last.op = "write_block"
    /\ last.passed = Some(block_of(last.hash).proof_of_work_family)
    /\ IsSome(block_index.Tip)
    /\ block_index.Tip = last.tip_before
    /\ block_index.Tip # Some(last.hash)

\* ---- C10
\* For the stored blocks and the genesis block, and with every stored block's
\* parent stored or the genesis block, block_belongs_to_canonical_chain(c, t)
\* returns, without a panic, true exactly when c is t or an ancestor of t.
C10_CanonicalChain ==
    \A c, t \in stored_blocks \cup { genesis_block } :
        LET answer == block_belongs_to_canonical_chain(block_index, header_of(c),
                                                       header_of(t))
        IN  /\ answer.panic = ""
            /\ answer.value = (c.hash \in chain_of(t.hash))

\* Two blocks of height 1 with two children each, and a tip of height 3:
\* one block of height 1 is canonical, its competitor is not.
C10_Witness ==
    \E c, d, t \in stored_blocks :
        /\ c.height = 1 /\ d.height = 1 /\ c # d /\ t.height = 3
        /\ Len(get_children_blocks(block_index, header_of(c))) >= 2
        /\ block_belongs_to_canonical_chain(block_index, header_of(c), header_of(t)).value
        /\ ~block_belongs_to_canonical_chain(block_index, header_of(d), header_of(t)).value


\* ---- C11
\* For every known block h and every count k >= 0, get_ancestor_block_digests
\* returns min(k, height(h)) digests: the parent of h first, then each further
\* ancestor, never h itself; nothing for the genesis block.
C11_AncestorDigests ==
    last.op = "get_ancestor_block_digests" =>
        /\ aborted = ""
        /\ Len(last.returned) =
              IF last.count < block_of(last.hash).height THEN last.count
              ELSE block_of(last.hash).height
        /\ Len(last.returned) > 0 =>
              last.returned[1] = block_of(last.hash).prev_block_digest
        /\ \A i \in 1..(Len(last.returned) - 1) :
              last.returned[i + 1] = block_of(last.returned[i]).prev_block_digest

\* The call was made with count 0 for a block above the genesis block.
C11_Witness ==
    /\ last.op = "get_ancestor_block_digests"
    /\ last.count = 0
    /\ last.hash # GenesisDigest

\* The same for every count k >= 1, and for count 0 on the genesis block.
C11_AncestorDigestsOfPositiveCount ==
    ( /\ last.op = "get_ancestor_block_digests"
      /\ last.count >= 1 \/ last.hash = GenesisDigest ) =>
        /\ aborted = ""
        /\ Len(last.returned) =
              IF last.count < block_of(last.hash).height THEN last.count
              ELSE block_of(last.hash).height
        /\ Len(last.returned) > 0 =>
              last.returned[1] = block_of(last.hash).prev_block_digest
        /\ \A i \in 1..(Len(last.returned) - 1) :
              last.returned[i + 1] = block_of(last.returned[i]).prev_block_digest

\* ---- C12
\* For every block file that received a block, File(N) counts the blocks
\* appended to it, sums their serialized lengths and bounds their heights;
\* the k-th block appended to the file lies, and is recorded, at the offset
\* that is the sum of the lengths of the blocks appended before it, so that
\* recorded ranges do not overlap. LastFile never decreases and grows by one
\* per write exactly when the length of the current file plus the length of
\* the new block exceeds MAX_BLOCK_FILE_SIZE.
RECURSIVE C12_SumOfLengths(_)
C12_SumOfLengths(appends) ==
    IF appends = << >> THEN 0 ELSE Head(appends).length + C12_SumOfLengths(Tail(appends))

C12_AppendsTo(n) == SelectSeq(history.appended, LAMBDA a : a.file = n)

C12_IndicesOfAppendsTo(n) ==
    SelectSeq([ i \in DOMAIN history.appended |-> i ],
              LAMBDA i : history.appended[i].file = n)

C12_IsLatestAppendOfItsBlock(i) ==
    \A j \in DOMAIN history.appended :
        history.appended[j].hash = history.appended[i].hash => j <= i

C12_FileRecordsHold ==
    \A n \in 0..(Len(block_files) - 1) :
        Len(block_files[n + 1]) > 0 =>
            LET appends == C12_AppendsTo(n)
                heights == { appends[k].height : k \in DOMAIN appends }
            IN  /\ n \in DOMAIN block_index.File
                /\ block_index.File[n].blocks_in_file_count = Len(appends)
                /\ block_index.File[n].file_size = C12_SumOfLengths(appends)
                /\ block_index.File[n].file_size = Len(block_files[n + 1])
                /\ \A h \in heights : /\ block_index.File[n].min_block_height <= h
                                       /\ h <= block_index.File[n].max_block_height
                /\ block_index.File[n].min_block_height \in heights
                /\ block_index.File[n].max_block_height \in heights
                /\ \A k \in DOMAIN appends :
                     LET offset == C12_SumOfLengths(SubSeq(appends, 1, k - 1))
                     IN  /\ SubSeq(block_files[n + 1], offset + 1, offset + appends[k].length)
                              = serialize(block_of(appends[k].hash))
                         /\ C12_IsLatestAppendOfItsBlock(C12_IndicesOfAppendsTo(n)[k]) =>
                               ( /\ block_index.Block[appends[k].hash].file_index = n
                                 /\ block_index.Block[appends[k].hash].offset = offset
                                 /\ block_index.Block[appends[k].hash].block_length
                                      = appends[k].length )

C12_RangesDoNotOverlap ==
    \A d, e \in DOMAIN block_index.Block :
        ( d # e /\ block_index.Block[d].file_index = block_index.Block[e].file_index ) =>
            \/ block_index.Block[d].offset + block_index.Block[d].block_length
                  <= block_index.Block[e].offset
            \/ block_index.Block[e].offset + block_index.Block[e].block_length
                  <= block_index.Block[d].offset

C12_LastFileStep ==
    LET last_file == IF IsSome(block_index.LastFile) THEN Unwrap(block_index.LastFile) ELSE 0
        current_length ==
            IF last_file + 1 <= Len(block_files) THEN Len(block_files[last_file + 1]) ELSE 0
    IN  IF history'.appended # history.appended
        THEN Unwrap(block_index'.LastFile) =
               IF current_length + bincode_size(pool'[last'.hash]) > MAX_BLOCK_FILE_SIZE
               THEN last_file + 1 ELSE last_file
        ELSE block_index'.LastFile = block_index.LastFile

C13_OtherBlocksKept ==
    \A d \in DOMAIN block_index.Block :
        ( history'.writes # history.writes /\ d # last'.hash ) =>
            /\ d \in DOMAIN block_index'.Block
            /\ block_index'.Block[d] = block_index.Block[d]
            /\ LET record == block_index.Block[d]
               IN  SubSeq(block_files'[record.file_index + 1],
                          record.offset + 1, record.offset + record.block_length)
                     = SubSeq(block_files[record.file_index + 1],
                              record.offset + 1, record.offset + record.block_length)
            /\ get_block(block_index', block_files', d) = get_block(block_index, block_files, d)

C13_CompetingBlocksResolvable ==
    ( /\ last.op = "write_block"
      /\ aborted = ""
      /\ IsSome(last.tip_before)
      /\ block_index.Tip = Some(last.hash)
      /\ Unwrap(last.tip_before) # last.hash ) =>
        /\ get_block(block_index, block_files, Unwrap(last.tip_before))
             = Some(block_of(Unwrap(last.tip_before)))
        /\ get_block(block_index, block_files, last.hash) = Some(block_of(last.hash))

C13_WriteBlockFrame ==
    /\ []C13_CompetingBlocksResolvable
    /\ [][C13_OtherBlocksKept]_vars

\* A competing block of the height of the tip and of larger
\* proof_of_work_family was written into the file of the tip and has become
\* Tip.
C13_Witness ==
    /\ last.op = "write_block"
    /\ aborted = ""
    /\ IsSome(last.tip_before)
    /\ block_index.Tip = Some(last.hash)
    /\ Unwrap(last.tip_before) # last.hash
    /\ block_of(Unwrap(last.tip_before)).height = block_of(last.hash).height
    /\ block_of(Unwrap(last.tip_before)).proof_of_work_family
         < block_of(last.hash).proof_of_work_family
    /\ block_index.Block[Unwrap(last.tip_before)].file_index
         = block_index.Block[last.hash].file_index

\* ---- C14
\* While update_mutator_set calls return, the AOCL has as many leaves as the
\* genesis block and the blocks on the chain from the genesis block to the
\* SyncDigest block have addition records; applying or reverting removal
\* records leaves the number of AOCL leaves as it is; and when no block of
\* that chain spends anything, no bit of the active window is set.
RECURSIVE C14_AdditionsOnChainTo(_)
C14_AdditionsOnChainTo(digest) ==
    IF digest = GenesisDigest THEN Len(genesis_block.additions)
    ELSE Len(block_of(digest).additions)
         + C14_AdditionsOnChainTo(block_of(digest).prev_block_digest)

C14_AoclLeafCount ==
    aborted = "" =>
        /\ Len(ams.aocl) = C14_AdditionsOnChainTo(sync_digest(ms_block_sync))
        /\ \A b \in known_blocks : \A k \in DOMAIN b.removals :
              remove_helper_ok(ams, b.removals[k]) =>
                 Len(remove_helper(ams, b.removals[k]).ms.aocl) = Len(ams.aocl)
        /\ \A d \in DOMAIN ms_block_sync.Diff :
              Len(revert_remove(ams, ms_block_sync.Diff[d]).aocl) = Len(ams.aocl)
        /\ ( \A d \in chain_of(sync_digest(ms_block_sync)) : block_of(d).removals = << >> )
              => ams.swbf_active = << >>

\* update_mutator_set rolled back blocks with removal records whose additions
\* had made the window slide, onto a chain without spends.
C14_Witness ==
    /\ update_returned
    /\ \E i \in DOMAIN last.rolled_back : block_of(last.rolled_back[i]).removals # << >>
    /\ Len(last.ms_rolled_back.swbf_inactive) < Len(history.synced_ms[Unwrap(last.sync_before)].swbf_inactive)
    /\ \A d \in chain_of(sync_digest(ms_block_sync)) : block_of(d).removals = << >>
    /\ Len(ams.aocl) >= 3

\* ---- C15
\* After B1 (coinbase only), B2 (one input that spends the coinbase of B1, two
\* outputs) and B3 (coinbase only) were applied in order from the genesis
\* block, the AOCL has 5 leaves (one per output of the genesis block, B1, B2
\* and B3: the consumed input removes no leaf), every Bloom-filter bit of the
\* spent coinbase is set, those at or above the start of the window in the
\* active window, and get_latest_block returns B3.
C15_LinearChainApplied ==
    /\ aborted = ""
    /\ Len(pool) = 3
    /\ pool[1].prev_block_digest = GenesisDigest
    /\ Len(pool[1].additions) = 1 /\ pool[1].removals = << >>
    /\ pool[2].prev_block_digest = 1
    /\ Len(pool[2].additions) = 2
    /\ pool[2].removals = << drop(pool[1].additions[1], 1, << >>) >>
    /\ pool[3].prev_block_digest = 2
    /\ Len(pool[3].additions) = 1 /\ pool[3].removals = << >>
    /\ history.writes = << 1, 2, 3 >>
    /\ DOMAIN history.diff_written = { 1, 2, 3 }
    /\ \A d \in 1..3 : history.diff_written[d] = d
    /\ ms_block_sync.SyncDigest = Some(3)

C15_SpentIndices == get_swbf_indices(pool[1].additions[1], 1)

C16_IndicesOf(item, membership_proof) ==
    Range(get_swbf_indices(commit(item, membership_proof.randomness),
                           membership_proof.data_index))

C17_RemovedDoesNotVerify ==
    (last.op = "remove" /\ aborted = "") =>
        /\ ~verify_membership_proof(ams, last.item, last.membership_proof)
        /\ ~verify_membership_proof(ams, last.item,
               update_from_remove(last.membership_proof,
                                  drop_membership_proof(last.item, last.membership_proof)))
        /\ \A b \in C16_IndicesOf(last.item, last.membership_proof) : bit_is_set(ams, b)
        /\ Cardinality(C16_IndicesOf(last.item, last.membership_proof)) = NUM_TRIALS

\* A removal of an item with one bit in an inactive chunk and one in the
\* active window, which flipped the bit of the inactive chunk.
C17_Witness ==
    /\ last.op = "remove"
    /\ aborted = ""
    /\ verify_membership_proof(last.ms_before, last.item, last.membership_proof)
    /\ \E b \in C16_IndicesOf(last.item, last.membership_proof) :
          /\ b < get_batch_index(ams) * CHUNK_SIZE
          /\ ~bit_is_set(last.ms_before, b)
    /\ \E b \in C16_IndicesOf(last.item, last.membership_proof) :
          b >= get_batch_index(ams) * CHUNK_SIZE


C19_InactiveLeavesFollowBatchIndex ==
    /\ Len(ams.swbf_inactive) =
          (IF Len(ams.aocl) = 0 THEN 0 ELSE (Len(ams.aocl) - 1) \div BATCH_SIZE)
    /\ last.op = "add" =>
          LET before == last.ms_before
              index == Len(before.aocl)
          IN  /\ Len(ams.aocl) = index + 1
              /\ IF index # 0 /\ index % BATCH_SIZE = 0
                 THEN /\ last.returned =
                           Some(<< Len(ams.swbf_inactive) - 1,
                                   slice(before.swbf_active, 0, CHUNK_SIZE) >>)
                      /\ ams.swbf_inactive =
                           Append(before.swbf_inactive,
                                  slice(before.swbf_active, 0, CHUNK_SIZE))
                      /\ ams.swbf_active =
                           slice(before.swbf_active, CHUNK_SIZE, WINDOW_SIZE)
                 ELSE /\ last.returned = None
                      /\ ams.swbf_inactive = before.swbf_inactive
                      /\ ams.swbf_active = before.swbf_active

\* The second slide of the window, of a chunk with a set bit.
C19_Witness ==
    /\ last.op = "add"
    /\ IsSome(last.returned)
    /\ Unwrap(last.returned)[1] = 1
    /\ Unwrap(last.returned)[2] # << >>
    /\ Len(ams.swbf_inactive) = 2


C21_SortedAndBelowWindowSize ==
    /\ \A i \in DOMAIN ams.swbf_active :
          /\ 0 <= ams.swbf_active[i]
          /\ ams.swbf_active[i] < WINDOW_SIZE
    /\ \A i \in 1..(Len(ams.swbf_active) - 1) :
          ams.swbf_active[i] <= ams.swbf_active[i + 1]
    /\ last.op = "slide_window" =>
          \A i \in DOMAIN ams.swbf_active :
              ~(WINDOW_SIZE - CHUNK_SIZE <= ams.swbf_active[i]
                  /\ ams.swbf_active[i] < WINDOW_SIZE)

\* A window that slid, slid back with a chunk of two indices and then took
\* an insert below its greatest index.
C21_Witness ==
    /\ aborted = ""
    /\ last.op = "insert"
    /\ history.window_calls.slides >= 2
    /\ Len(ams.swbf_active) >= 4
    /\ last.count < ams.swbf_active[Len(ams.swbf_active)]
    /\ Cardinality(Range(ams.swbf_active)) >= 3

\* ---- C22
\* remove(i) on a window without i aborts and insert(i) with i >= WINDOW_SIZE
\* aborts, both with the index list as it was; remove(i) on a window with i
\* removes one occurrence of i and leaves every other index and its
\* multiplicity as it was.
C22_Occurrences(sbf, index) == Cardinality({ i \in DOMAIN sbf : sbf[i] = index })

C22_AbortsAndRemovesOne ==
    /\ (last.op = "remove" /\ C22_Occurrences(last.ms_before.swbf_active, last.count) = 0) =>
          /\ aborted # ""
          /\ ams.swbf_active = last.ms_before.swbf_active
    /\ (last.op = "insert" /\ last.count >= WINDOW_SIZE) =>
          /\ aborted # ""
          /\ ams.swbf_active = last.ms_before.swbf_active
    /\ (last.op = "remove" /\ C22_Occurrences(last.ms_before.swbf_active, last.count) > 0) =>
          /\ aborted = ""
          /\ \A index \in 0..WINDOW_SIZE :
                C22_Occurrences(ams.swbf_active, index) =
                    C22_Occurrences(last.ms_before.swbf_active, index)
                      - (IF index = last.count THEN 1 ELSE 0)
          /\ Len(ams.swbf_active) = Len(last.ms_before.swbf_active) - 1

\* A remove of an index that the window held twice, among other indices.
C22_Witness ==
    /\ last.op = "remove"
    /\ aborted = ""
    /\ C22_Occurrences(last.ms_before.swbf_active, last.count) = 2
    /\ C22_Occurrences(ams.swbf_active, last.count) = 1
    /\ Cardinality(Range(ams.swbf_active)) >= 2

\* ---- C23
\* The active window counts occurrences: while no slide has happened,
\* contains(i) is true exactly when the insert(i) calls so far outnumber the
\* remove(i) calls so far.
C23_ContainsCounts ==
    history.window_calls.slides = 0 =>
        \A index \in 0..(WINDOW_SIZE - 1) :
            contains(ams.swbf_active, index)
              <=> history.window_calls.inserted[index] > history.window_calls.removed[index]

\* An index inserted twice and removed once, and so still contained, after
\* another index was inserted and removed.
C23_Witness ==
    /\ history.window_calls.slides = 0
    /\ aborted = ""
    /\ \E index \in 0..(WINDOW_SIZE - 1) :
          /\ history.window_calls.inserted[index] = 2
          /\ history.window_calls.removed[index] = 1
          /\ contains(ams.swbf_active, index)
          /\ \E other \in 0..(WINDOW_SIZE - 1) :
                /\ other < index
                /\ history.window_calls.inserted[other] = 1
                /\ history.window_calls.removed[other] = 1
                /\ ~contains(ams.swbf_active, other)


\* ---- C24
\* What difficulty_control was called with, and the exact product of the old
\* difficulty and the adjustment factor, rounded down.
C24_OldDifficulty == last.passed[3]

C24_PreviousBlockHeight == last.passed[5]

C24_ExactProduct ==
    (to_biguint(C24_OldDifficulty)
       * (LIMB_BASE + ((-last.returned.clamped_error) \div (2 ^ 4)))) \div LIMB_BASE

C24_Overflows == C24_ExactProduct >= LIMB_BASE ^ DIFFICULTY_NUM_LIMBS

\* difficulty_control returns old_difficulty when the previous block is the
\* genesis block; otherwise its result lies between MINIMUM and MAXIMUM, is
\* MAXIMUM exactly when the multiplication overflows the limbs and MINIMUM
\* whenever the product is below MINIMUM. (The claim as the specification
\* states it.)
C24_ResultInRange ==
    (last.op = "difficulty_control" /\ aborted = "") =>
        IF C24_PreviousBlockHeight = 0
        THEN last.returned.value = C24_OldDifficulty
        ELSE /\ to_biguint(MINIMUM) <= to_biguint(last.returned.value)
             /\ to_biguint(last.returned.value) <= to_biguint(MAXIMUM)
             /\ last.returned.value = MAXIMUM <=> C24_Overflows
             /\ C24_ExactProduct < to_biguint(MINIMUM) => last.returned.value = MINIMUM

\* C24 as the code has it: old_difficulty for a genesis predecessor; otherwise
\* a result between MINIMUM and MAXIMUM that is MAXIMUM whenever the
\* multiplication overflows the limbs, MINIMUM whenever the product is below
\* MINIMUM, and the product itself in every other case, so that it is MAXIMUM
\* without an overflow when the product is MAXIMUM.
C24_ResultSaturates ==
    (last.op = "difficulty_control" /\ aborted = "") =>
        IF C24_PreviousBlockHeight = 0
        THEN last.returned.value = C24_OldDifficulty
        ELSE /\ to_biguint(MINIMUM) <= to_biguint(last.returned.value)
             /\ to_biguint(last.returned.value) <= to_biguint(MAXIMUM)
             /\ (last.returned.overflow > 0) <=> C24_Overflows
             /\ to_biguint(last.returned.value) =
                   (IF C24_Overflows THEN to_biguint(MAXIMUM)
                    ELSE IF C24_ExactProduct < to_biguint(MINIMUM) THEN to_biguint(MINIMUM)
                    ELSE C24_ExactProduct)

\* A call whose product overflows the limbs by a carry out of the top limb.
C24_Witness ==
    /\ last.op = "difficulty_control"
    /\ aborted = ""
    /\ C24_PreviousBlockHeight = 1
    /\ C24_Overflows
    /\ last.returned.value = MAXIMUM
    /\ C24_OldDifficulty # MAXIMUM
    /\ less_than(last.returned.product, C24_OldDifficulty)


\* ---- C25
\* The observed block time and the target block interval of the call, and a
\* relative error brought into [-1 * 2^32, 4 * 2^32] (2^32 being LIMB_BASE).
C25_DeltaT == (last.passed[1] - last.passed[2]) % FIELD_P

C25_TargetInterval ==
    IF last.passed[4] = None THEN TARGET_BLOCK_INTERVAL ELSE last.passed[4][1]

C25_Clamped(relative_error) ==
    IF relative_error < -LIMB_BASE THEN -LIMB_BASE
    ELSE IF relative_error > 4 * LIMB_BASE THEN 4 * LIMB_BASE
    ELSE relative_error

C25_Adjusted ==
    /\ last.op = "difficulty_control"
    /\ aborted = ""
    /\ last.returned.adjusted

\* The relative error that difficulty_control feeds into the controller is
\* the quotient (delta_t - T) * 2^32 / T, rounded down and clamped. (The claim
\* as the specification states it.)
C25_RelativeErrorIsQuotient ==
    C25_Adjusted =>
        last.returned.clamped_error =
            C25_Clamped(((C25_DeltaT - C25_TargetInterval) * LIMB_BASE) \div C25_TargetInterval)

\* C25 as the code has it: the relative error is the absolute error times the
\* quotient 2^32 / T rounded down, clamped; the absolute error is the observed
\* block time read as a signed 64-bit number minus T, and where that
\* difference falls below the least signed 64-bit number a call that returns
\* has wrapped it around.
C25_RelativeErrorUsesReciprocal ==
    C25_Adjusted =>
        LET signed_delta_t == IF C25_DeltaT >= I64_MODULUS \div 2
                              THEN C25_DeltaT - I64_MODULUS ELSE C25_DeltaT
            difference == signed_delta_t - C25_TargetInterval
            absolute_error == IF difference < -(I64_MODULUS \div 2)
                              THEN difference + I64_MODULUS ELSE difference
        IN  last.returned.clamped_error =
                C25_Clamped(absolute_error * (LIMB_BASE \div C25_TargetInterval))

\* A call whose relative error lies strictly inside the clamp and is not the
\* rounded quotient, the target block interval not dividing 2^32.
C25_Witness ==
    /\ C25_Adjusted
    /\ -LIMB_BASE < last.returned.clamped_error
    /\ last.returned.clamped_error < 4 * LIMB_BASE
    /\ LIMB_BASE % C25_TargetInterval # 0
    /\ C25_DeltaT > C25_TargetInterval
    /\ last.returned.clamped_error = 
          (C25_DeltaT - C25_TargetInterval) * (LIMB_BASE \div C25_TargetInterval)


\* ---- C26
\* The factor and the sum of the two difficulties of the run, as numbers.
C26_Factor == last.passed[3] + last.passed[4] * LIMB_BASE

C26_Sum == to_biguint(last.passed[1]) + to_biguint(last.passed[2])

C26_Compared == last.op = "safe_mul_fixed_point_rational" /\ last.returned # << >>

\* For difficulties a and b whose sum fits the limbs and every factor r, the
\* sum of safe_mul_fixed_point_rational of a and of b, each taken with its
\* overflow limb, equals r * (a + b) rounded down or is smaller than it by
\* exactly 1.
C26_MultiplicationDistributes ==
    C26_Compared =>
        LET r_times_a_plus_b_bui == (C26_Sum * C26_Factor) \div LIMB_BASE
            r_times_a_plus_r_times_b_bui ==
                last.returned[1].r_times_a_bui + last.returned[1].r_times_b_bui
        IN  \/ r_times_a_plus_r_times_b_bui = r_times_a_plus_b_bui
            \/ r_times_a_plus_r_times_b_bui + 1 = r_times_a_plus_b_bui

\* A run where the first product overflows the limbs and the two fractional
\* parts carry, the sum of the products being smaller by 1.
C26_Witness ==
    /\ C26_Compared
    /\ last.returned[1].overflow[1] > 0
    /\ last.returned[1].r_times_b_bui > 0
    /\ last.returned[1].r_times_a_bui + last.returned[1].r_times_b_bui + 1
         = (C26_Sum * C26_Factor) \div LIMB_BASE


\* ---- C27
\* What holds of every job at every moment: it has resolved at most once; a
\* Cancelled completion means that the cancel channel was found ready before
\* run_async had returned, the channel having been sent on or closed; a
\* Finished completion carries every part of the result of run_async, which
\* has returned.
C27_OneOfTwoOutcomes ==
    \A j \in Jobs :
        /\ job[j].resolved = (IF job[j].completion = None THEN 0 ELSE 1)
        /\ job[j].completion \in { None, Some(Cancelled), Some(Finished(polls_of(j))) }
        /\ job[j].completion = Some(Cancelled) =>
              /\ job[j].cancel_observed
              /\ job[j].version > 0 \/ job[j].sender_dropped
              /\ job[j].parts < polls_of(j)
        /\ job[j].completion = Some(Finished(polls_of(j))) =>
              /\ ~job[j].cancel_observed
              /\ job[j].parts = polls_of(j)

\* A resolved job keeps its completion and run_async builds nothing more.
C27_Settled ==
    \A j \in Jobs :
        job[j].completion # None =>
            /\ job'[j].completion = job[j].completion
            /\ job'[j].parts = job[j].parts

\* run_async_cancellable resolves exactly once and only to one of two
\* outcomes: Cancelled if the cancel notification is observed before run_async
\* has completed, the result of the job never being delivered, and otherwise
\* Finished with the complete result of run_async; a cancelled job never
\* yields a partial result.
C27_ResolvesOnce ==
    /\ []C27_OneOfTwoOutcomes
    /\ [][C27_Settled]_vars
    /\ <>(\A j \in Jobs : job[j].completion # None)

\* One job finished and another cancelled after run_async had built a part
\* of its result.
C27_Witness ==
    /\ job[1].completion = Some(Finished(polls_of(1)))
    /\ job[2].completion = Some(Cancelled)
    /\ job[2].parts = 1


\* ---- C28
\* The first message of a connection that answer_peer has ended or handed to
\* the peer loop, and whether everything speaks for accepting it.
C28_Answered(a) == connection[a].pc \in { "failed", "connected", "closed" }

C28_Other(a) == connection[a].first[1].handshake_data

C28_Acceptable(a, peers) ==
    /\ C28_Other(a).network = own_handshake.network
    /\ Cardinality({ b \in Addresses : peers[b] # None }) < args_max_peers
    /\ C28_Other(a).instance_id # own_handshake.instance_id
    /\ \A b \in Addresses :
          peers[b] # None => peers[b][1].instance_id # C28_Other(a).instance_id

C28_Decided ==
    \A a \in Addresses :
        (C28_Answered(a) /\ connection[a].first[1].magic = MAGIC_STRING_REQUEST) =>
            LET seen == IF connection[a].peer_map_seen = None THEN peer_map
                        ELSE connection[a].peer_map_seen[1]
                sent == connection[a].sent
            IN  /\ Len(sent) >= 1
                /\ sent[1] = Handshake(MAGIC_STRING_RESPONSE, own_handshake)
                /\ Cardinality({ i \in 2..Len(sent) : sent[i].message = "ConnectionStatus" }) <= 1
                /\ connection[a].outcome \in { "accepted", "refused", "dropped" }
                /\ connection[a].outcome = "accepted" <=> C28_Acceptable(a, seen)
                /\ connection[a].outcome = "accepted" =>
                      /\ sent = << sent[1], ConnectionStatus(Accepted) >>
                      /\ seen[a] = None
                      /\ connection[a].pc = "connected" =>
                            /\ peer_map[a] # None
                            /\ peer_map[a][1].instance_id = C28_Other(a).instance_id
                      /\ connection[a].pc = "closed" => peer_map[a] = None
                /\ connection[a].outcome = "refused" =>
                      /\ Len(sent) = 2
                      /\ sent[2] \in { ConnectionStatus(Refused(r)) :
                                          r \in { "MaxPeerNumberExceeded", "SelfConnect",
                                                  "AlreadyConnected" } }
                      /\ peer_map[a] = None
                /\ connection[a].outcome = "dropped" =>
                      /\ Len(sent) = 1
                      /\ peer_map[a] = None

C28_WrongMagicRejected ==
    \A a \in Addresses :
        (C28_Answered(a) /\ connection[a].first[1].magic # MAGIC_STRING_REQUEST) =>
            /\ connection[a].sent = << >>
            /\ connection[a].outcome = "rejected"
            /\ peer_map[a] = None

\* The step that accepts a peer adds one entry to the peer map, the step of
\* its Bye takes one entry away, and no other step changes the peer map.
C28_MapFollowsPeers ==
    LET size(peers) == Cardinality({ b \in Addresses : peers[b] # None })
        accepted == { a \in Addresses : connection[a].pc # "connected"
                                          /\ connection'[a].pc = "connected" }
        left == { a \in Addresses : connection[a].pc = "connected"
                                      /\ connection'[a].pc = "closed" }
    IN  size(peer_map') = size(peer_map) + Cardinality(accepted) - Cardinality(left)

C29_PeersBefore == last.returned[1]

C29_StandingsBefore == last.returned[2]

\* The peers that the call is to clear and the IP addresses it is to clear
\* in the database.
C29_Cleared(a) == last.op = "clear_all_standings" \/ a[1] = last.passed[1]

\* clear_ip_standing(ip) resets the standing of every peer whose socket
\* address has that IP, latest sanction included, in the peer map and in the
\* database, and leaves the peers of every other IP as they were in both;
\* clear_all_standings resets every peer in both.
C29_StandingsCleared ==
    last.op \in { "clear_ip_standing", "clear_all_standings" } =>
        /\ \A a \in Addresses :
              IF C29_PeersBefore[a] # None /\ C29_Cleared(a)
              THEN /\ peer_map[a] # None
                   /\ peer_map[a][1].standing.standing = 0
                   /\ peer_map[a][1].standing.latest_sanction = None
                   /\ peer_map[a][1].instance_id = C29_PeersBefore[a][1].instance_id
              ELSE peer_map[a] = C29_PeersBefore[a]
        /\ \A ip \in Ips :
              IF C29_StandingsBefore[ip] # None /\ C29_Cleared(<< ip, 1 >>)
              THEN /\ peer_databases[ip] # None
                   /\ peer_databases[ip][1].standing = 0
                   /\ peer_databases[ip][1].latest_sanction = None
              ELSE peer_databases[ip] = C29_StandingsBefore[ip]

\* clear_ip_standing of an IP address with two sanctioned peers, while a
\* peer of another IP address is sanctioned too and a sanctioned peer that
\* has left has its standing in the database.
C29_Witness ==
    /\ last.op = "clear_ip_standing"
    /\ last.passed = << 1 >>
    /\ \A a \in { << 1, 1 >>, << 1, 2 >>, << 2, 1 >> } :
          /\ C29_PeersBefore[a] # None
          /\ C29_PeersBefore[a][1].standing.standing > 0
    /\ C29_PeersBefore[<< 2, 2 >>] = None
    /\ \A ip \in Ips :
          /\ C29_StandingsBefore[ip] # None
          /\ C29_StandingsBefore[ip][1].standing = MaxStanding
    /\ peer_map[<< 2, 1 >>][1].standing.standing > 0


\* ---- C30
\* The messages on the queue or taken from it by the main loop.
C30_OnQueueOrReceived ==
    { rpc_server_to_main.queue[i] : i \in 1..Len(rpc_server_to_main.queue) }
        \cup rpc_server_to_main.received

\* What holds of a call c that has got as far as the queue: true is returned
\* exactly for a message that was placed on the queue, which is then on it or
\* with the main loop, false only once the receiver is gone, and a call that
\* waits has neither returned nor placed nor lost its message.
C30_Acknowledged(c) ==
    /\ rpc_call[c].pc = "returned" =>
          /\ rpc_call[c].acknowledgement \in { Some(TRUE), Some(FALSE) }
          /\ rpc_call[c].acknowledgement = Some(TRUE) <=> rpc_call[c].placed
          /\ rpc_call[c].placed <=> c \in C30_OnQueueOrReceived
          /\ rpc_call[c].acknowledgement = Some(FALSE) => rpc_server_to_main.receiver_closed
    /\ rpc_call[c].pc = "waiting" =>
          /\ rpc_call[c].acknowledgement = None
          /\ c \notin C30_OnQueueOrReceived
    /\ Len(rpc_server_to_main.queue) <= RPC_CHANNEL_CAPACITY

\* Every call of RPC send returns a boolean acknowledgement: true when the
\* message was placed on the bounded queue, false when it could not be
\* delivered; a call that finds the queue full waits for room. (The claim as
\* the specification states it.)
C30_EveryCallAcknowledged ==
    \A c \in Calls :
        /\ rpc_call[c].pc \in { "idle", "waiting", "returned" }
        /\ C30_Acknowledged(c)

\* What the code does: the claim holds of the calls whose argument parses,
\* and a call whose argument does not parse panics before it sends anything.
C30_ParsedCallAcknowledged ==
    \A c \in Calls :
        /\ rpc_call[c].pc = "panicked" <=> ~rpc_call[c].parses
        /\ rpc_call[c].pc = "panicked" =>
              /\ rpc_call[c].acknowledgement = None
              /\ c \notin C30_OnQueueOrReceived
        /\ C30_Acknowledged(c)

\* The queue is full, a third call waits for room, and nothing was refused.
C30_Witness ==
    /\ Len(rpc_server_to_main.queue) = RPC_CHANNEL_CAPACITY
    /\ ~rpc_server_to_main.receiver_closed
    /\ \E c \in Calls : rpc_call[c].pc = "waiting"
    /\ \E c \in Calls : rpc_call[c].acknowledgement = Some(TRUE)
                          /\ c \in rpc_server_to_main.received


\* ---- C31
\* In the forward phase of update_mutator_set the addition records of the
\* block are applied in block order before any removal record, the removal
\* records are applied in block order, and a removal record has, when it is
\* applied, been batch-updated for every step that was applied before it.
C31_ForwardPhaseRan ==
    last.op = "update_mutator_set" /\ aborted \in { "", "remove", "commitment" }

C31_Block == block_of(last.hash)

C31_Forward == forward_phase(last.ms_rolled_back, C31_Block.additions, C31_Block.removals)

C31_StepsInBlockOrder(n_removed) ==
    [ i \in 1..(Len(C31_Block.additions) + n_removed) |->
        IF i <= Len(C31_Block.additions) THEN [ op |-> "add", position |-> i ]
        ELSE [ op |-> "remove", position |-> i - Len(C31_Block.additions) ] ]

C31_AdditionsThenRemovalsInBlockOrder ==
    C31_ForwardPhaseRan =>
        /\ C31_Forward.ms = ams
        /\ C31_Forward.ok = (aborted # "remove")
        /\ C31_Forward.ok => Len(C31_Forward.applied) = Len(C31_Block.removals)
        /\ C31_Forward.steps =
              C31_StepsInBlockOrder(IF C31_Forward.ok THEN Len(C31_Forward.applied)
                                    ELSE Len(C31_Forward.applied) - 1)
        /\ \A k \in DOMAIN C31_Forward.applied :
              /\ C31_Forward.applied[k].position = k
              /\ C31_Forward.applied[k].updated_for = C31_Forward.applied[k].before
              /\ C31_Forward.applied[k].before =
                    C31_StepsInBlockOrder(k - 1)

C31_Witness ==
    /\ last.op = "update_mutator_set" /\ aborted = ""
    /\ Len(C31_Block.additions) = 2 /\ Len(C31_Block.removals) = 2
    /\ C31_AdditionsThenRemovalsInBlockOrder
    /\ \E k \in DOMAIN C31_Forward.applied :
          C31_Forward.applied[k].record # C31_Block.removals[k]

\* ---- C32
\* Whenever the rollback phase of update_mutator_set reverts an addition that
\* had slid the window, no index of [WINDOW_SIZE - CHUNK_SIZE, WINDOW_SIZE) is
\* set in the active window: revert_add never aborts, and the additions of the
\* block the mutator set is synced to can be reverted from the present state,
\* although the indices flipped by that block's removals are still set.
C32_SyncedBlock == block_of(Unwrap(ms_block_sync.SyncDigest))

C32_SlideBackPreconditionHolds ==
    /\ aborted # "revert_add"
    /\ (aborted = "" /\ IsSome(ms_block_sync.SyncDigest)) =>
          revert_additions(ams, Reverse(C32_SyncedBlock.additions)).ok

\* The additions of a block slid the window.
C32_Slid(block) ==
    \E i \in Len(block_of(block.prev_block_digest).next_ms.aocl)
              ..(Len(block.next_ms.aocl) - 1) : window_slides(i)

\* A rollback reverted a block whose additions had slid the window and whose
\* removals had set an index of the last chunk of the window they found, and
\* indices that those removals flipped were in the window when it slid back.
C32_Witness ==
    /\ last.op = "update_mutator_set" /\ aborted = ""
    /\ \E i \in DOMAIN last.rolled_back :
          LET block == block_of(last.rolled_back[i])
              window_start_before ==
                  get_batch_index(block_of(block.prev_block_digest).next_ms) * CHUNK_SIZE
              window_start == get_batch_index(block.next_ms) * CHUNK_SIZE
          IN  /\ is_honest(block)
              /\ C32_Slid(block)
              /\ \E k \in DOMAIN ms_block_sync.Diff[block.hash] :
                    /\ ms_block_sync.Diff[block.hash][k]
                          >= window_start_before + WINDOW_SIZE - CHUNK_SIZE
                    /\ ms_block_sync.Diff[block.hash][k] >= window_start

\* ---- C33
\* The limbs that safe_mul_fixed_point_rational returns, with the overflow
\* limb as the most significant one, are the floor of d * (lo + hi * 2^w) / 2^w
\* (w the width of a limb), and no carry of the second loop exceeds one limb.
C33_Called == last.op = "safe_mul_fixed_point_rational" /\ Len(last.passed) = 3

C33_Exact ==
    (to_biguint(last.passed[1]) * (last.passed[2] + last.passed[3] * LIMB_BASE)) \div LIMB_BASE

C33_ProductIsExact ==
    C33_Called =>
        /\ to_biguint(last.returned.difficulty \o << last.returned.overflow >>) = C33_Exact
        /\ Len(last.returned.difficulty) = DIFFICULTY_NUM_LIMBS
        /\ last.returned.overflow \in Limbs
        /\ ~last.returned.wrapped

\* The greatest difficulty times the greatest factor: the overflow limb is
\* used and the fractional limb is dropped.
C33_Witness ==
    /\ C33_Called
    /\ last.passed = << MAXIMUM, LIMB_BASE - 1, LIMB_BASE - 1 >>
    /\ last.returned.overflow = LIMB_BASE - 1
    /\ C33_Exact * LIMB_BASE < to_biguint(MAXIMUM) * (LIMB_BASE * LIMB_BASE - 1)
    /\ C33_ProductIsExact

\* ---- C34
\* update_mutator_set(B) returns only if B's parent is the SyncDigest block or
\* one of its ancestors (the genesis block when SyncDigest is absent). When
\* B's parent is on another branch the rollback reverts every block down to
\* and with the additions of the genesis block and aborts there, and the
\* call writes neither SyncDigest nor Diff(B.hash).
C34_UpdateStep == history'.updates = history.updates + 1

C34_ParentIsSyncedOrAncestor ==
    block_of(last'.hash).prev_block_digest \in chain_of(sync_digest(ms_block_sync))

C34_Update ==
    C34_UpdateStep =>
        /\ last'.op = "update_mutator_set"
        /\ aborted' = "" => C34_ParentIsSyncedOrAncestor
        /\ ~C34_ParentIsSyncedOrAncestor =>
              /\ ms_block_sync' = ms_block_sync
              /\ IF IsSome(ms_block_sync.SyncDigest)
                 THEN /\ aborted' = "Diff missing"
                      /\ Range(last'.rolled_back)
                           = chain_of(sync_digest(ms_block_sync)) \ { GenesisDigest }
                      /\ ams'.aocl = << >>
                 ELSE /\ aborted' = "Empty ms_block_sync_db"
                      /\ ams' = ams

C34_CompletesOnlyOnSyncedBranch == [][C34_Update]_vars

\* update_mutator_set was called for a block of another branch than the one
\* of the synced block: it rolled the synced block back and the additions of
\* the genesis block, and aborted.
C34_Witness ==
    /\ last.op = "update_mutator_set"
    /\ aborted = "Diff missing"
    /\ Len(last.rolled_back) = 1
    /\ ams.aocl = << >>
    /\ IsSome(ms_block_sync.SyncDigest)
    /\ Unwrap(ms_block_sync.SyncDigest) = last.rolled_back[1]
    /\ block_of(last.hash).prev_block_digest \notin chain_of(last.rolled_back[1])
    /\ last.hash \notin DOMAIN ms_block_sync.Diff

\* ---- C35
\* When update_mutator_set(B) aborts at the commitment check, SyncDigest and
\* the Diff table are as before the call, and the archival mutator set and
\* the stored active window are those of the SyncDigest block.
C35_SyncedMs == history.synced_ms[sync_digest(ms_block_sync)]

C35_ConsistentAfterCommitmentAbort ==
    (last.op = "update_mutator_set" /\ aborted = "commitment") =>
        /\ ms_block_sync.SyncDigest = last.sync_before
        /\ last.hash \in DOMAIN ms_block_sync.Diff => last.hash \in DOMAIN history.diff_written
        /\ ams = C35_SyncedMs
        /\ active_window_db = Some(C35_SyncedMs.swbf_active)

\* What holds of a call that aborts at the commitment check: ms_block_sync_db
\* is as before the call, while the archival mutator set is the one of B's
\* parent with the records of B applied and its active window is stored.
C35_AbortStep == history'.updates = history.updates + 1 /\ aborted' = "commitment"

C35_Abort ==
    C35_AbortStep =>
        /\ ms_block_sync' = ms_block_sync
        /\ ams' = apply_update(history.synced_ms[block_of(last'.hash).prev_block_digest],
                               block_of(last'.hash).additions,
                               block_of(last'.hash).removals).ms
        /\ active_window_db' = Some(ams'.swbf_active)
        /\ get_commitment(ams') # get_commitment(block_of(last'.hash).next_ms)

C35_SyncKeptAndMutatorSetAdvanced == [][C35_Abort]_vars

\* A call aborted at the commitment check after a rollback, and left a
\* mutator set and a stored active window that are not those of the
\* SyncDigest block.
C35_Witness ==
    /\ last.op = "update_mutator_set" /\ aborted = "commitment"
    /\ last.rolled_back # << >>
    /\ ams # C35_SyncedMs
    /\ active_window_db # Some(C35_SyncedMs.swbf_active)

\* ---- C36
\* After any write_block calls every digest of Height(h) has a Block record
\* whose header has height h, and the digest of every Block record is listed
\* in Height of its header's height; block_height_to_block_headers never
\* fails to find a record, whatever write_block calls interleave with it.
C36_HeightAndBlockRecordsAgree ==
    /\ \A h \in DOMAIN block_index.Height :
          \A i \in DOMAIN block_index.Height[h] :
            /\ block_index.Height[h][i] \in DOMAIN block_index.Block
            /\ block_index.Block[block_index.Height[h][i]].block_header.height = h
    /\ \A d \in DOMAIN block_index.Block :
          /\ block_index.Block[d].block_header.hash = d
          /\ block_index.Block[d].block_header.height \in DOMAIN block_index.Height
          /\ d \in Range(block_index.Height[block_index.Block[d].block_header.height])
    /\ aborted # "called Option::unwrap() on a None value"
    /\ \A i \in DOMAIN headers_call.block_headers :
          /\ headers_call.block_headers[i].hash = headers_call.block_digests[i]
          /\ headers_call.block_headers[i].height = headers_call.block_height

\* A lookup returns the headers of two blocks of one height after a block of
\* that height was stored between its Height lookup and its Block lookups.
C36_Witness ==
    /\ headers_call.pc = "returned"
    /\ Len(headers_call.block_headers) = 2
    /\ headers_call.block_headers[1] # headers_call.block_headers[2]
    /\ Len(block_index.Height[headers_call.block_height]) > 2
    /\ C36_HeightAndBlockRecordsAgree

\* ---- C37
\* batch_remove of removal records that are valid against the mutator set
\* leaves the active window and the inactive chunks as removing the records
\* one after another does, the remaining records being updated in between,
\* and the set of the changed indices it returns is the union of the indices
\* that those removals flipped.
C37_Sequential == apply_removals(last.ms_before, last.passed, << >>)

C37_BatchRemoveIsSequentialRemove ==
    last.op = "batch_remove" =>
        /\ aborted = ""
        /\ C37_Sequential.ok
        /\ C37_Sequential.ms = ams
        /\ Range(C37_Sequential.changed_indices) = Range(last.returned)

\* Two records with a dictionary chunk in common were removed in one batch,
\* an index of theirs was set before and one of them was flipped in an
\* inactive chunk.
C37_Witness ==
    /\ last.op = "batch_remove" /\ aborted = ""
    /\ Len(last.passed) >= 2
    /\ DOMAIN last.passed[1].target_chunks \cap DOMAIN last.passed[2].target_chunks # { }
    /\ \E i \in DOMAIN last.passed :
          Range(last.passed[i].bit_indices) \ Range(last.returned) # { }
    /\ \E k \in DOMAIN last.returned :
          last.returned[k] < get_batch_index(last.ms_before) * CHUNK_SIZE
    /\ C37_BatchRemoveIsSequentialRemove

\* ---- C38
\* ArchivalState::new adds the addition records of the genesis block exactly
\* when the AOCL of the mutator set it is given is empty, and leaves a
\* mutator set with a non-empty AOCL as it is: through any number of
\* restarts the genesis additions are in the AOCL at most once.
C38_GenesisLeaves ==
    { i \in DOMAIN ams.aocl : ams.aocl[i] \in Range(genesis_block.additions) }

C38_GenesisAddedOnce ==
    /\ Cardinality(C38_GenesisLeaves) <= Len(genesis_block.additions)
    /\ last.op = "new" =>
          /\ Len(last.ms_before.aocl) > 0 => ams = last.ms_before
          /\ Len(last.ms_before.aocl) = 0 =>
                /\ ams.aocl = genesis_block.additions
                /\ ams.swbf_active = last.ms_before.swbf_active

\* A restart after two blocks were applied: the mutator set restored from
\* disk is left as it is.
C38_Witness ==
    /\ last.op = "new"
    /\ Len(last.ms_before.aocl) >= 3
    /\ ams = last.ms_before
    /\ IsSome(ms_block_sync.SyncDigest)
    /\ Cardinality(C38_GenesisLeaves) = 1

\* A restart after a rollback that had reverted the genesis additions: they
\* are added again.
C38_AddedAgain ==
    /\ last.op = "new"
    /\ last.ms_before.aocl = << >>
    /\ IsSome(ms_block_sync.SyncDigest)

\* ---- C39
\* run_async_cancellable resolves to Cancelled when the cancel sender was
\* dropped and run_async has not returned, no cancel message being needed:
\* the poll that finds the channel closed resolves; while the sender is alive
\* and no message was sent it resolves to Finished only.
C39_Poll(j) ==
    /\ job'[j] # job[j]
    /\ job'[j].version = job[j].version
    /\ job'[j].sender_dropped = job[j].sender_dropped

C39_Polled ==
    \A j \in Jobs :
        C39_Poll(j) =>
            /\ job[j].sender_dropped =>
                  /\ job'[j].completion # None
                  /\ job'[j].parts < polls_of(j) => job'[j].completion = Some(Cancelled)
            /\ (~job[j].sender_dropped /\ job[j].version = 0) =>
                  job'[j].completion \in { None, Some(Finished(polls_of(j))) }

C39_DroppedSenderCancels ==
    /\ [][C39_Polled]_vars
    /\ \A j \in Jobs : job[j].sender_dropped ~> job[j].completion # None

\* The sender of a job was dropped without a cancel message after run_async
\* had built a part of the result, and the job resolved to Cancelled.
C39_Witness ==
    \E j \in Jobs :
        /\ job[j].sender_dropped
        /\ job[j].version = 0
        /\ job[j].parts = 1
        /\ job[j].completion = Some(Cancelled)
        /\ job[j].cancel_observed

\* ---- C40
\* For a previous block that is not the genesis block and an old difficulty
\* of at least MINIMUM: the difficulty is unchanged when the observed block
\* time is the target interval, not greater when it is longer and not smaller
\* when it is shorter; the factor is positive, and the new difficulty is at
\* least 0.75 of the old one, rounded down, and at most 1.0625 of it, rounded
\* down. (The claim as stated, for every observed block time.)
C40_Old == to_biguint(C24_OldDifficulty)

C40_New == to_biguint(last.returned.value)

C40_Factor == LIMB_BASE + ((-last.returned.clamped_error) \div (2 ^ 4))

C40_Controlled == C25_Adjusted /\ C40_Old >= to_biguint(MINIMUM)

C40_Bounded ==
    /\ C40_Factor > 0
    /\ C40_New >= (3 * C40_Old) \div 4
    /\ C40_New >= to_biguint(MINIMUM)
    /\ C40_New <= (17 * C40_Old) \div 16

C40_AbsoluteError ==
    LET signed_delta_t == IF C25_DeltaT >= I64_MODULUS \div 2
                          THEN C25_DeltaT - I64_MODULUS ELSE C25_DeltaT
        difference == signed_delta_t - C25_TargetInterval
    IN  IF difference < -(I64_MODULUS \div 2) THEN difference + I64_MODULUS ELSE difference

C40_LongBlockTimeRaises ==
    /\ C40_Controlled
    /\ C25_DeltaT >= I64_MODULUS \div 2
    /\ C40_New > C40_Old
====
